---- MODULE Spec2Model ----
(***************************************************************************)
(* hexnuts: the wallet's persisted state.                                  *)
(*                                                                         *)
(*   scripts/wallet-store.js  the lock marker file (acquireLock,           *)
(*                            releaseLock, withLock) and the proof store   *)
(*                            (loadWallet, saveWallet, add/remove/save     *)
(*                            ProofsForMint)                               *)
(*   lib/deterministic.js     the counter file (loadCounters,              *)
(*                            saveCounters, updateCounter)                 *)
(*   lib/wallet-factory       createWallet and its countersReserved hook   *)
(*                                                                         *)
(* Processes are operating-system processes that share the files.  A step  *)
(* of a process is one file-system call (or one clock read) of the code,   *)
(* so that every interleaving of the calls of different processes is a     *)
(* behaviour of the model.                                                 *)
(***************************************************************************)
EXTENDS Integers, Sequences, FiniteSets, TLC

(***************************************************************************)
(* Bounds of the model.                                                    *)
(***************************************************************************)
NumProcs == 2
MaxProofs == 2
MaxArgLen == 1
MaxSeqArgLen == 2
MaxIndex == 2
MaxCount == 1
MaxKeys == 3

(***************************************************************************)
(* Constants of the program.                                               *)
(***************************************************************************)
LOCK_TIMEOUT == 5000
LOCK_RETRY_INTERVAL == 50

Procs == 1..NumProcs
Mints == {"mA", "mB"}
Secrets == {"s1", "s2"}
Amounts == {1, 2}
Keysets == {"k1", "k2"}
Proofs == [secret : Secrets, amount : Amounts]

\* The clock is read in steps of TickStep; an elapsed time is kept up to
\* ElapsedCap, beyond which every comparison of acquireLock is decided.
TickStep == LOCK_TIMEOUT \div 2
ElapsedCap == LOCK_TIMEOUT + LOCK_RETRY_INTERVAL

Min(a, b) == IF a < b THEN a ELSE b
Max(a, b) == IF a > b THEN a ELSE b

SeqsUpTo(S, n) == UNION {[1..k -> S] : k \in 0..n}

VARIABLES
  pc,          \* pc[p]: where process p stands in withLock / acquireLock / fn
  lockFile,    \* LOCK_FILE: <<>> when absent, else <<[creator, content]>>
  walletFile,  \* WALLET_FILE: [state: absent | torn | ok, data: the proofs object]
  lockPid,     \* acquireLock's lockPid: <<>> is NaN, <<q>> is pid q
  elapsed,     \* Date.now() - startTime of the running acquireLock
  waitUntil,   \* acquireLock's waitUntil, relative to startTime
  wallet,      \* fn's local wallet object, as it will be saved
  fnResult,    \* how fn ended: none | ok | error
  result,      \* what withLock gave its caller: none | ok | error | LockTimeout
  adds,        \* history: the proofs given to the add calls run so far
  pureAdds,    \* history: so far only adds of pairwise distinct proofs ran, each to its end
  held,        \* history: a live holder's marker was there throughout p's acquireLock
  solo,        \* history: p's acquireLock began at a stale marker, with no contender
  relAbsent    \* history: the last releaseLock found the marker absent

storeVars == <<pc, lockFile, walletFile, lockPid, elapsed, waitUntil, wallet,
               fnResult, result, adds, pureAdds, held, solo, relAbsent>>

VARIABLES
  cpc,          \* cpc[p]: where process p stands in its wallet session
  keysetId,     \* the keyset the process's Wallet is bound to (wallet.keysetId)
  counterFile,  \* COUNTER_FILE: [state: absent | torn | ok, data: the counters object]
  counterInit,  \* the counterInit createWallet gave the Wallet
  session,      \* the Wallet's own counters during the session
  counters,     \* updateCounter's local counters object, as it will be saved
  lastCounters  \* history: the last complete content of the counter file

counterVars == <<cpc, keysetId, counterFile, counterInit, session, counters, lastCounters>>

VARIABLES
  lastCall,      \* history: the last call made on a store: [kind, target, proofs, n]
  overwritten,   \* history: while a write of the wallet file is under way, what loadWallet() gave before it
  prevWallet,    \* history: what loadWallet() gave before the last call on the proof store
  prevCounters,  \* history: what loadCounters() gave before the last call on the counter store
  returned       \* what the last call returned: [proofs, balance, indices]

callVars == <<lastCall, overwritten, prevWallet, prevCounters, returned>>

VARIABLES
  fileMode,      \* the wallet file's permission bits ({} while there is no file)
  umask          \* the file mode creation mask the scripts run under

modeVars == <<fileMode, umask>>

VARIABLES
  argv,          \* the parsed command line of the locking script that is run
  lock,          \* what the script came to: its outcome and the lock handed to asP2PK
  keystore,      \* ARCHON_PASSPHRASE (set or not) and what show-mnemonic gives
  seeds,         \* seeds[p]: what deriveCashuSeed returned to process p
  console,       \* the lines written with console.log / console.error
  configFile,    \* CONFIG_FILE of init-deterministic
  run,           \* run[p]: the script process p runs, where it stands and what it holds
  preRestore     \* the files WALLET_FILE.pre-restore.<time> that restore has made

scriptVars == <<argv, lock, keystore, seeds, console, configFile, run, preRestore>>

vars == <<storeVars, counterVars, callVars, modeVars, scriptVars>>

AcquirePcs == {"tryCreate", "writePid", "readLock", "killCheck", "unlinkStale",
               "checkTimeout", "wait"}
CriticalPcs == {"load", "saveOpen", "saveWrite", "release"}
DeadPcs == {"gone"}
AllPcs == {"idle"} \cup AcquirePcs \cup CriticalPcs \cup DeadPcs

(***************************************************************************)
(* The proof store's pure part.                                            *)
(***************************************************************************)
EmptyWallet == [m \in {} |-> <<>>]
NoFile == [state |-> "absent", data |-> EmptyWallet]
TornFile == [state |-> "torn", data |-> EmptyWallet]
OkFile(w) == [state |-> "ok", data |-> w]

\* loadWallet: a missing file and a file that does not parse give { proofs: {} }.
loadWallet(f) == IF f.state = "ok" THEN f.data ELSE EmptyWallet

\* wallet.proofs[mintUrl] || []
proofsOf(w, m) == IF m \in DOMAIN w THEN w[m] ELSE <<>>

\* wallet.proofs[mintUrl] = ps
setProofsAlone(w, m, ps) == [x \in {m} |-> ps]

setProofs(w, m, ps) == [x \in (DOMAIN w) \cup {m} |-> IF x = m THEN ps ELSE w[x]]

SecretsOf(ps) == {ps[i].secret : i \in 1..Len(ps)}
KeepProof(p, gone) == p.secret \notin gone
FilterOut(ps, gone) == SelectSeq(ps, LAMBDA p : KeepProof(p, gone))

\* A remove that drops the stored proofs equal to a target as a whole.
removeProofsByIdentity(w, m, ps) ==
  setProofs(w, m, SelectSeq(proofsOf(w, m), LAMBDA p : p \notin {ps[i] : i \in DOMAIN ps}))

\* A save that keeps what was stored and appends.
saveProofsAppending(w, m, ps) == setProofs(w, m, proofsOf(w, m) \o ps)

saveProofsForMint(w, m, ps) == setProofs(w, m, ps)
addProofsForMint(w, m, ps) == setProofs(w, m, proofsOf(w, m) \o ps)
removeProofsForMint(w, m, ps) == setProofs(w, m, FilterOut(proofsOf(w, m), SecretsOf(ps)))

OpsOver(M, P, n) == [kind : {"add", "remove", "replace"}, mint : M, proofs : SeqsUpTo(P, n)]

ApplyOp(w, op) ==
  CASE op.kind = "add" -> addProofsForMint(w, op.mint, op.proofs)
    [] op.kind = "remove" -> removeProofsForMint(w, op.mint, op.proofs)
    [] op.kind = "replace" -> saveProofsForMint(w, op.mint, op.proofs)
    [] OTHER -> w

\* An add of one proof whose secret no earlier add for the mint has given.
DistinctAdd(op, done) ==
  /\ op.kind = "add"
  /\ Len(op.proofs) = 1
  /\ \A a \in done : a[1] = op.mint => a[2].secret # op.proofs[1].secret

\* getProofsForMint: loadWallet().proofs[mintUrl] || []
getProofsForMint(f, m) == proofsOf(loadWallet(f), m)

\* proofs.reduce((sum, p) => sum + p.amount, 0)
RECURSIVE reduceSum(_, _)
reduceSum(ps, sum) == IF ps = <<>> THEN sum ELSE reduceSum(Tail(ps), sum + Head(ps).amount)

\* A balance that counts the proofs.
getBalanceCounting(f, m) == Len(getProofsForMint(f, m))

\* getBalanceForMint
getBalanceForMint(f, m) == reduceSum(getProofsForMint(f, m), 0)

Fits(w) == \A m \in DOMAIN w : Len(w[m]) <= MaxProofs

(***************************************************************************)
(* Permission bits of the wallet file. The execute bits play no part.      *)
(***************************************************************************)
ModeBits == {"ur", "uw", "gr", "gw", "or", "ow"}
Mode600 == {"ur", "uw"}
Mode666 == ModeBits
\* umask 077, 022 and 000
Umask022 == {"gw", "ow"}
Umasks == {{"gr", "gw", "or", "ow"}, Umask022, {}}

\* fs.writeFileSync(path, data, { mode }): the mode (less the umask) is given
\* to a file the call creates; a file that exists keeps its mode.
writeFileMode(f, mode, requested, mask) ==
  IF f.state = "absent" THEN requested \ mask ELSE mode

\* fs.chmodSync(path, mode)
chmodSync(mode, requested) == requested

\* saveWallet: writeFileSync with { mode: 0o600 }, then chmodSync 0o600.
saveWalletMode(f, mode, mask) ==
  chmodSync(writeFileMode(f, mode, Mode600, mask), Mode600)

(***************************************************************************)
(* The locking scripts' pure part. A key is a hex string, kept as the      *)
(* sequence of its characters; an option that may be left out is a         *)
(* sequence of at most one number.                                         *)
(***************************************************************************)
Chars(n, c) == [i \in 1..n |-> c]
Hex02 == <<"0", "2">>

\* pk.startsWith(prefix)
startsWith(pk, prefix) ==
  Len(pk) >= Len(prefix) /\ \A i \in 1..Len(prefix) : pk[i] = prefix[i]

\* What the comment of normalizePubkey says: the 02/03 prefix is removed.
normalizePubkeyStripping(pk) ==
  IF Len(pk) = 66 /\ (startsWith(pk, Hex02) \/ startsWith(pk, <<"0", "3">>))
  THEN SubSeq(pk, 3, Len(pk))
  ELSE IF Len(pk) = 64 THEN Hex02 \o pk ELSE pk

\* normalizePubkey
normalizePubkey(pk) ==
  IF Len(pk) = 66 /\ (startsWith(pk, Hex02) \/ startsWith(pk, <<"0", "3">>))
  THEN pk
  ELSE IF Len(pk) = 64 THEN Hex02 \o pk ELSE pk

\* getCashuPubkey, for the stored key keys.pubkey
getCashuPubkey(pubkey) == IF Len(pubkey) = 64 THEN Hex02 \o pubkey ELSE pubkey

\* opts.pubkeys.map(normalizePubkey)
mapNormalize(pks) == [i \in DOMAIN pks |-> normalizePubkey(pks[i])]

Omitted == <<>>
Given(n) == <<n>>
\* JavaScript truthiness of an option: null and 0 are falsy.
Truthy(o) == o # Omitted /\ o[1] # 0

NoArgs == [script |-> "none", amount |-> 0, pubkeys |-> <<>>, self |-> <<>>,
           threshold |-> Omitted, refundKeys |-> <<>>, refundThreshold |-> Omitted,
           locktime |-> Omitted]

NoLock == [outcome |-> "none", pubkeys |-> <<>>, nSigs |-> Omitted, required |-> 0,
           refundKeys |-> <<>>, locktime |-> Omitted, nSigsRefund |-> Omitted, shown |-> 0]

(***************************************************************************)
(* Seed derivation. A digest is kept as the term of its inputs: equal      *)
(* inputs give equal digests and different inputs different ones.          *)
(***************************************************************************)
\* String.prototype.normalize('NFKD') on a word: the composed form of a
\* word becomes its decomposed form, other words stay.
nfkd(w) == IF w = "ecole-composed" THEN "ecole-decomposed" ELSE w

NoSeed ==
  [alg |-> "none", key |-> "", bytes |-> 0,
   data |-> [alg |-> "none", password |-> <<>>, salt |-> <<>>, iterations |-> 0, bytes |-> 0]]

\* mnemonicToSeed(mnemonic, passphrase): PBKDF2-HMAC-SHA512 of the NFKD
\* phrase with salt 'mnemonic' + passphrase, 2048 rounds, 64 bytes.
mnemonicToSeed(mnemonic, passphrase) ==
  [alg |-> "pbkdf2-sha512",
   password |-> [i \in DOMAIN mnemonic |-> nfkd(mnemonic[i])],
   salt |-> <<"mnemonic", nfkd(passphrase)>>,
   iterations |-> 2048,
   bytes |-> 64]

\* An HMAC that leaves its key out.
hmacKeyless(key, data) == [alg |-> "hmac-sha512", key |-> "", data |-> data, bytes |-> 64]

\* crypto.createHmac('sha512', key).update(data).digest()
createHmac(key, data) == [alg |-> "hmac-sha512", key |-> key, data |-> data, bytes |-> 64]

CashuTag == "HexNuts/Cashu/v1"

\* The derivation of deriveCashuSeed for a phrase, a passphrase and a tag.
derive(mnemonic, passphrase, tag) == createHmac(tag, mnemonicToSeed(mnemonic, passphrase))

\* getMnemonic: null (here the empty phrase) without ARCHON_PASSPHRASE, when
\* the command fails and below 12 words; otherwise the first 24 or 12 words.
getMnemonic(ks) ==
  IF ~ks.passphrase THEN <<>>
  ELSE IF ~ks.ok THEN <<>>
  ELSE IF Len(ks.words) >= 12
       THEN SubSeq(ks.words, 1, IF Len(ks.words) >= 24 THEN 24 ELSE 12)
       ELSE <<>>

\* deriveCashuSeed: null (here NoSeed) when there is no phrase.
deriveCashuSeed(ks) ==
  IF getMnemonic(ks) = <<>> THEN NoSeed ELSE derive(getMnemonic(ks), "", CashuTag)

NotCalled == [called |-> FALSE, seed |-> NoSeed]
Returned(seed) == [called |-> TRUE, seed |-> seed]

NoConfig == [mode |-> "none", defaultMint |-> "-", keysetId |-> "-"]

\* A process that runs no script.
NoRun ==
  [script |-> "none", at |-> "off", mintUrl |-> "-", amount |-> 0, proofs |-> <<>>,
   keep |-> <<>>, send |-> <<>>, change |-> <<>>, swapped |-> FALSE,
   keysetId |-> "-", next |-> 0, counters |-> [k \in {} |-> 0], before |-> EmptyWallet]

NoDerivation ==
  /\ keystore = [passphrase |-> FALSE, ok |-> FALSE, words |-> <<>>]
  /\ seeds = [p \in Procs |-> NotCalled]
  /\ console = {}
  /\ configFile = NoConfig
  /\ run = [p \in Procs |-> NoRun]
  /\ preRestore = {}

NoScript == argv = NoArgs /\ lock = NoLock /\ NoDerivation

(***************************************************************************)
(* The counter store's pure part.                                          *)
(***************************************************************************)
EmptyCounters == [k \in {} |-> 0]
NoCounterFile == [state |-> "absent", data |-> EmptyCounters]
TornCounterFile == [state |-> "torn", data |-> EmptyCounters]
OkCounterFile(c) == [state |-> "ok", data |-> c]

\* loadCounters: a missing file and a file that does not parse give {}.
loadCounters(f) == IF f.state = "ok" THEN f.data ELSE EmptyCounters

\* counters[keysetId] || 0
counterOf(c, k) == IF k \in DOMAIN c THEN c[k] ELSE 0

setCounter(c, k, v) == [x \in (DOMAIN c) \cup {k} |-> IF x = k THEN v ELSE c[x]]

\* An updateCounter that stores the candidate as it comes.
updateCounterOverwrite(c, k, next) == setCounter(c, k, next)

\* updateCounter's assignment: counters[keysetId] = Math.max(counters[keysetId] || 0, next)
updateCounter(c, k, next) == setCounter(c, k, Max(counterOf(c, k), next))

(***************************************************************************)
(* Calls and what they return.                                             *)
(***************************************************************************)
NoCall == [kind |-> "none", target |-> "-", proofs |-> <<>>, n |-> 0]
Call(kind, target, proofs, n) == [kind |-> kind, target |-> target, proofs |-> proofs, n |-> n]

\* A call that returns undefined.
Nothing == [proofs |-> <<>>, balance |-> 0, indices |-> {}]

(***************************************************************************)
(* The lock marker's pure part.                                            *)
(***************************************************************************)
Marker(p, content) == <<[creator |-> p, content |-> content]>>

\* A kill(pid, 0) that never throws, and one that always throws.
ProcessAlwaysExists(pid, pcs) == TRUE
ProcessNeverExists(pid, pcs) == FALSE

\* process.kill(lockPid, 0) returns: lockPid is a number and the process exists.
\* It throws for NaN (the marker was read empty) and for a process that is gone.
ProcessExists(pid, pcs) ==
  /\ pid # <<>>
  /\ pid[1] \in DOMAIN pcs
  /\ pcs[pid[1]] \notin DeadPcs

\* The marker a process of an earlier run left when it was killed inside
\* withLock: it holds that process's pid, which no longer exists.
StaleFromEarlierRun == Marker(0, <<0>>)

\* fs.unlinkSync(LOCK_FILE): removes whatever marker is there; ENOENT if none.
unlinkSync(lf) == [file |-> <<>>, err |-> IF lf = <<>> THEN "ENOENT" ELSE "none"]

\* A releaseLock that leaves the marker where it is.
releaseLockKeeping(lf) == [file |-> lf, threw |-> FALSE]

\* A releaseLock that lets the error of unlinkSync through.
releaseLockThrowing(lf) == [file |-> unlinkSync(lf).file, threw |-> unlinkSync(lf).err # "none"]

\* releaseLock: try { unlinkSync } catch { ignore }.
releaseLock(lf) == [file |-> unlinkSync(lf).file, threw |-> FALSE]

(***************************************************************************)
(* What the history variables observe.                                     *)
(***************************************************************************)
LiveHolderOther(p, lf, pcs) ==
  /\ lf # <<>>
  /\ lf[1].creator # p
  /\ lf[1].creator \in DOMAIN pcs
  /\ pcs[lf[1].creator] \in CriticalPcs
  /\ lf[1].content = <<lf[1].creator>>

\* The marker records the pid of a process that no longer exists.
StaleMarker(lf, pcs) ==
  /\ lf # <<>>
  /\ lf[1].content # <<>>
  /\ lf[1].content[1] \in DOMAIN pcs => pcs[lf[1].content[1]] \in DeadPcs

OthersQuiet(p, pcs) == \A q \in Procs \ {p} : pcs[q] \in {"idle"} \cup DeadPcs

Observe(starting) ==
  /\ held' = [q \in Procs |->
       IF q \in starting THEN LiveHolderOther(q, lockFile', pc')
       ELSE IF pc'[q] \in AcquirePcs THEN held[q] /\ LiveHolderOther(q, lockFile', pc')
       ELSE held[q]]
  /\ solo' = [q \in Procs |->
       IF q \in starting THEN StaleMarker(lockFile', pc') /\ OthersQuiet(q, pc')
       ELSE IF pc'[q] \in AcquirePcs THEN solo[q] /\ OthersQuiet(q, pc')
       ELSE solo[q]]

Init ==
  /\ pc = [p \in Procs |-> "idle"]
  /\ lockFile \in {<<>>, StaleFromEarlierRun}
  /\ walletFile = NoFile
  /\ lockPid = [p \in Procs |-> <<>>]
  /\ elapsed = [p \in Procs |-> 0]
  /\ waitUntil = [p \in Procs |-> 0]
  /\ wallet = [p \in Procs |-> EmptyWallet]
  /\ fnResult = [p \in Procs |-> "none"]
  /\ result = [p \in Procs |-> "none"]
  /\ adds = {}
  /\ pureAdds = TRUE
  /\ held = [p \in Procs |-> FALSE]
  /\ solo = [p \in Procs |-> FALSE]
  /\ relAbsent = FALSE
  /\ cpc = [p \in Procs |-> "off"]
  /\ keysetId = [p \in Procs |-> "-"]
  /\ counterFile = NoCounterFile
  /\ counterInit = [p \in Procs |-> EmptyCounters]
  /\ session = [p \in Procs |-> EmptyCounters]
  /\ counters = [p \in Procs |-> EmptyCounters]
  /\ lastCounters = EmptyCounters
  /\ lastCall = NoCall
  /\ overwritten = EmptyWallet
  /\ prevWallet = EmptyWallet
  /\ prevCounters = EmptyCounters
  /\ returned = Nothing
  /\ fileMode = {}
  /\ umask = Umask022
  /\ NoScript

(***************************************************************************)
(* withLock(fn): acquireLock() outside the try, then fn, then releaseLock  *)
(* in the finally.                                                         *)
(***************************************************************************)

\* withLock is called; acquireLock reads startTime.
StartOp(p) ==
  /\ pc[p] = "idle"
  /\ pc' = [pc EXCEPT ![p] = "tryCreate"]
  /\ elapsed' = [elapsed EXCEPT ![p] = 0]
  /\ fnResult' = [fnResult EXCEPT ![p] = "none"]
  /\ result' = [result EXCEPT ![p] = "none"]
  /\ UNCHANGED <<lockFile, walletFile, lockPid, waitUntil, wallet, adds, pureAdds, relAbsent>>
  /\ Observe({p})
  /\ UNCHANGED counterVars
  /\ UNCHANGED callVars
  /\ UNCHANGED modeVars
  /\ UNCHANGED scriptVars

\* writeFileSync(LOCK_FILE, pid, {flag: 'wx'}): the exclusive open.  It creates
\* the file empty; the pid is written by the next call.
TryCreate(p) ==
  /\ pc[p] = "tryCreate"
  /\ IF lockFile = <<>>
       THEN /\ lockFile' = Marker(p, <<>>)
            /\ pc' = [pc EXCEPT ![p] = "writePid"]
       ELSE /\ lockFile' = lockFile
            /\ pc' = [pc EXCEPT ![p] = "readLock"]
  /\ UNCHANGED <<walletFile, lockPid, elapsed, waitUntil, wallet, fnResult, result,
                 adds, pureAdds, relAbsent>>
  /\ Observe({})
  /\ UNCHANGED counterVars
  /\ UNCHANGED callVars
  /\ UNCHANGED modeVars
  /\ UNCHANGED scriptVars

\* writeFileSync, the write of the pid through the descriptor it opened: it
\* reaches the marker only if that is still the file this process created.
\* acquireLock returns true.
WritePid(p) ==
  /\ pc[p] = "writePid"
  /\ lockFile' = IF lockFile # <<>> /\ lockFile[1].creator = p
                   THEN Marker(p, <<p>>) ELSE lockFile
  /\ pc' = [pc EXCEPT ![p] = "load"]
  /\ elapsed' = [elapsed EXCEPT ![p] = 0]
  /\ UNCHANGED <<walletFile, lockPid, waitUntil, wallet, fnResult, result,
                 adds, pureAdds, relAbsent>>
  /\ Observe({})
  /\ UNCHANGED counterVars
  /\ UNCHANGED callVars
  /\ UNCHANGED modeVars
  /\ UNCHANGED scriptVars

\* EEXIST: parseInt(readFileSync(LOCK_FILE)).  A read that fails is caught by
\* the outer catch, which goes on to the timeout check.
ReadLock(p) ==
  /\ pc[p] = "readLock"
  /\ IF lockFile = <<>>
       THEN /\ pc' = [pc EXCEPT ![p] = "checkTimeout"]
            /\ lockPid' = lockPid
       ELSE /\ pc' = [pc EXCEPT ![p] = "killCheck"]
            /\ lockPid' = [lockPid EXCEPT ![p] = lockFile[1].content]
  /\ UNCHANGED <<lockFile, walletFile, elapsed, waitUntil, wallet, fnResult, result,
                 adds, pureAdds, relAbsent>>
  /\ Observe({})
  /\ UNCHANGED counterVars
  /\ UNCHANGED callVars
  /\ UNCHANGED modeVars
  /\ UNCHANGED scriptVars

\* process.kill(lockPid, 0): if it throws, the marker is judged stale.
KillCheck(p) ==
  /\ pc[p] = "killCheck"
  /\ pc' = [pc EXCEPT ![p] = IF ProcessExists(lockPid[p], pc)
                               THEN "checkTimeout" ELSE "unlinkStale"]
  /\ lockPid' = [lockPid EXCEPT ![p] = <<>>]
  /\ UNCHANGED <<lockFile, walletFile, elapsed, waitUntil, wallet, fnResult, result,
                 adds, pureAdds, relAbsent>>
  /\ Observe({})
  /\ UNCHANGED counterVars
  /\ UNCHANGED callVars
  /\ UNCHANGED modeVars
  /\ UNCHANGED scriptVars

\* fs.unlinkSync(LOCK_FILE); continue.  An unlink that fails is caught by the
\* outer catch, which goes on to the timeout check.
UnlinkStale(p) ==
  /\ pc[p] = "unlinkStale"
  /\ lockFile' = unlinkSync(lockFile).file
  /\ pc' = [pc EXCEPT ![p] = IF unlinkSync(lockFile).err = "none"
                               THEN "tryCreate" ELSE "checkTimeout"]
  /\ UNCHANGED <<walletFile, lockPid, elapsed, waitUntil, wallet, fnResult, result,
                 adds, pureAdds, relAbsent>>
  /\ Observe({})
  /\ UNCHANGED counterVars
  /\ UNCHANGED callVars
  /\ UNCHANGED modeVars
  /\ UNCHANGED scriptVars

\* if (Date.now() - startTime > LOCK_TIMEOUT) throw; else waitUntil = now + interval.
\* The throw leaves withLock before its try: releaseLock is not called.
CheckTimeout(p) ==
  /\ pc[p] = "checkTimeout"
  /\ IF elapsed[p] > LOCK_TIMEOUT
       THEN /\ pc' = [pc EXCEPT ![p] = "idle"]
            /\ result' = [result EXCEPT ![p] = "LockTimeout"]
            /\ elapsed' = [elapsed EXCEPT ![p] = 0]
            /\ waitUntil' = waitUntil
       ELSE /\ pc' = [pc EXCEPT ![p] = "wait"]
            /\ result' = result
            /\ elapsed' = elapsed
            /\ waitUntil' = [waitUntil EXCEPT ![p] = elapsed[p] + LOCK_RETRY_INTERVAL]
  /\ UNCHANGED <<lockFile, walletFile, lockPid, wallet, fnResult, adds, pureAdds, relAbsent>>
  /\ Observe({})
  /\ UNCHANGED counterVars
  /\ UNCHANGED callVars
  /\ UNCHANGED modeVars
  /\ UNCHANGED scriptVars

\* while (Date.now() < waitUntil) {}
Wait(p) ==
  /\ pc[p] = "wait"
  /\ elapsed[p] >= waitUntil[p]
  /\ pc' = [pc EXCEPT ![p] = "tryCreate"]
  /\ waitUntil' = [waitUntil EXCEPT ![p] = 0]
  /\ UNCHANGED <<lockFile, walletFile, lockPid, elapsed, wallet, fnResult, result,
                 adds, pureAdds, relAbsent>>
  /\ Observe({})
  /\ UNCHANGED counterVars
  /\ UNCHANGED callVars
  /\ UNCHANGED modeVars
  /\ UNCHANGED scriptVars

\* fn of add/remove/saveProofsForMint: wallet = loadWallet(), then the change of
\* wallet.proofs[mintUrl].  The arguments are fn's closure; they are not read
\* before this step, so they are drawn here.
Load(p, op) ==
  /\ pc[p] = "load"
  /\ Fits(ApplyOp(loadWallet(walletFile), op))
  /\ wallet' = [wallet EXCEPT ![p] = ApplyOp(loadWallet(walletFile), op)]
  /\ pc' = [pc EXCEPT ![p] = "saveOpen"]
  /\ pureAdds' = (pureAdds /\ DistinctAdd(op, adds))
  /\ adds' = IF pureAdds /\ DistinctAdd(op, adds)
               THEN adds \cup {<<op.mint, op.proofs[1]>>} ELSE {}
  /\ UNCHANGED <<lockFile, walletFile, lockPid, elapsed, waitUntil, fnResult, result, relAbsent>>
  /\ Observe({})
  /\ UNCHANGED counterVars
  /\ UNCHANGED callVars
  /\ UNCHANGED modeVars
  /\ UNCHANGED scriptVars

\* saveWallet: writeFileSync(WALLET_FILE, ...) opens the file, truncating it.
SaveOpen(p) ==
  /\ pc[p] = "saveOpen"
  /\ walletFile' = TornFile
  /\ pc' = [pc EXCEPT ![p] = "saveWrite"]
  /\ UNCHANGED <<lockFile, lockPid, elapsed, waitUntil, wallet, fnResult, result,
                 adds, pureAdds, relAbsent>>
  /\ Observe({})
  /\ UNCHANGED counterVars
  /\ overwritten' = loadWallet(walletFile)
  /\ UNCHANGED <<lastCall, prevWallet, prevCounters, returned>>
  /\ fileMode' = writeFileMode(walletFile, fileMode, Mode600, umask)
  /\ UNCHANGED umask
  /\ UNCHANGED scriptVars

\* saveWallet: writeFileSync throws (the open fails); fn ends with the error.
SaveFail(p) ==
  /\ pc[p] = "saveOpen"
  /\ fnResult' = [fnResult EXCEPT ![p] = "error"]
  /\ pc' = [pc EXCEPT ![p] = "release"]
  /\ wallet' = [wallet EXCEPT ![p] = EmptyWallet]
  /\ pureAdds' = FALSE
  /\ adds' = {}
  /\ UNCHANGED <<lockFile, walletFile, lockPid, elapsed, waitUntil, result, relAbsent>>
  /\ Observe({})
  /\ UNCHANGED counterVars
  /\ UNCHANGED callVars
  /\ UNCHANGED modeVars
  /\ UNCHANGED scriptVars

\* saveWallet: the content is written (and chmod follows); fn returns.
SaveWrite(p) ==
  /\ pc[p] = "saveWrite"
  /\ walletFile' = OkFile(wallet[p])
  /\ fnResult' = [fnResult EXCEPT ![p] = "ok"]
  /\ pc' = [pc EXCEPT ![p] = "release"]
  /\ wallet' = [wallet EXCEPT ![p] = EmptyWallet]
  /\ UNCHANGED <<lockFile, lockPid, elapsed, waitUntil, result, adds, pureAdds, relAbsent>>
  /\ Observe({})
  /\ UNCHANGED counterVars
  /\ overwritten' = EmptyWallet
  /\ UNCHANGED <<lastCall, prevWallet, prevCounters, returned>>
  /\ fileMode' = chmodSync(fileMode, Mode600)
  /\ UNCHANGED umask
  /\ UNCHANGED scriptVars

\* finally { releaseLock() }; withLock returns fn's value or rethrows its error.
Release(p) ==
  /\ pc[p] = "release"
  /\ lockFile' = releaseLock(lockFile).file
  /\ result' = [result EXCEPT ![p] = IF releaseLock(lockFile).threw THEN "error"
                                       ELSE fnResult[p]]
  /\ relAbsent' = (lockFile = <<>>)
  /\ pc' = [pc EXCEPT ![p] = "idle"]
  /\ UNCHANGED <<walletFile, lockPid, elapsed, waitUntil, wallet, fnResult, adds, pureAdds>>
  /\ Observe({})
  /\ UNCHANGED counterVars
  /\ UNCHANGED callVars
  /\ UNCHANGED modeVars
  /\ UNCHANGED scriptVars

\* The process is killed inside withLock: nothing of it runs any more, the
\* files stay as they are.
Crash(p) ==
  /\ pc[p] \in AcquirePcs \cup CriticalPcs
  /\ pc' = [pc EXCEPT ![p] = "gone"]
  /\ lockPid' = [lockPid EXCEPT ![p] = <<>>]
  /\ elapsed' = [elapsed EXCEPT ![p] = 0]
  /\ waitUntil' = [waitUntil EXCEPT ![p] = 0]
  /\ wallet' = [wallet EXCEPT ![p] = EmptyWallet]
  /\ pureAdds' = (pureAdds /\ pc[p] \notin CriticalPcs \ {"load"})
  /\ adds' = IF pureAdds /\ pc[p] \notin CriticalPcs \ {"load"} THEN adds ELSE {}
  /\ UNCHANGED <<lockFile, walletFile, fnResult, result, relAbsent>>
  /\ Observe({})
  /\ UNCHANGED counterVars
  /\ UNCHANGED callVars
  /\ UNCHANGED modeVars
  /\ UNCHANGED scriptVars

\* The script ends: its pid no longer exists.
Exit(p) ==
  /\ pc[p] = "idle"
  /\ pc' = [pc EXCEPT ![p] = "gone"]
  /\ UNCHANGED <<lockFile, walletFile, lockPid, elapsed, waitUntil, wallet, fnResult,
                 result, adds, pureAdds, relAbsent>>
  /\ Observe({})
  /\ UNCHANGED counterVars
  /\ UNCHANGED callVars
  /\ UNCHANGED modeVars
  /\ UNCHANGED scriptVars

\* Time passes for every process inside acquireLock.
Tick ==
  /\ \E p \in Procs : pc[p] \in AcquirePcs /\ elapsed[p] < ElapsedCap
  /\ elapsed' = [p \in Procs |-> IF pc[p] \in AcquirePcs
                                   THEN Min(elapsed[p] + TickStep, ElapsedCap)
                                   ELSE elapsed[p]]
  /\ UNCHANGED <<pc, lockFile, walletFile, lockPid, waitUntil, wallet, fnResult, result,
                 adds, pureAdds, held, solo, relAbsent>>
  /\ UNCHANGED counterVars
  /\ UNCHANGED callVars
  /\ UNCHANGED modeVars
  /\ UNCHANGED scriptVars

\* The operations the concurrent processes draw from: one mint, one amount.
ConcOps == OpsOver({"mA"}, {pr \in Proofs : pr.amount = 1}, MaxArgLen)

Step(p) ==
  \/ TryCreate(p)
  \/ WritePid(p)
  \/ ReadLock(p)
  \/ KillCheck(p)
  \/ UnlinkStale(p)
  \/ CheckTimeout(p)
  \/ Wait(p)
  \/ \E op \in ConcOps : Load(p, op)
  \/ SaveOpen(p)
  \/ SaveFail(p)
  \/ SaveWrite(p)
  \/ Release(p)

Next ==
  \/ \E p \in Procs : StartOp(p)
  \/ \E p \in Procs : Step(p)
  \/ \E p \in Procs : Crash(p)
  \/ \E p \in Procs : Exit(p)
  \/ Tick

\* Processes that share the lock marker and the wallet file.
Spec == Init /\ [][Next]_vars

\* The same, with the scheduling of an operating system: a process that can
\* take its next step inside withLock takes it, and time passes.
LiveSpec == Init /\ [][Next]_vars /\ WF_vars(Tick) /\ \A p \in Procs : WF_vars(Step(p))

(***************************************************************************)
(* One process alone: add / remove / saveProofsForMint run from the call   *)
(* of withLock to its return with no other process running (StartOp to     *)
(* Release above, with a stale marker removed on the way).                 *)
(***************************************************************************)
Alone ==
  /\ \A p \in Procs : pc[p] = "idle"
  /\ lockFile = <<>> \/ StaleMarker(lockFile, pc)

SeqProofSeqs == SeqsUpTo(Proofs, MaxSeqArgLen)

AddProofs(m, ps) ==
  /\ Alone
  /\ Fits(addProofsForMint(loadWallet(walletFile), m, ps))
  /\ walletFile' = OkFile(addProofsForMint(loadWallet(walletFile), m, ps))
  /\ lockFile' = releaseLock(lockFile).file
  /\ lastCall' = Call("add", m, ps, 0)
  /\ prevWallet' = loadWallet(walletFile)
  /\ returned' = Nothing
  /\ UNCHANGED <<pc, lockPid, elapsed, waitUntil, wallet, fnResult, result, adds,
                 pureAdds, held, solo, relAbsent>>
  /\ UNCHANGED counterVars
  /\ UNCHANGED <<overwritten, prevCounters>>
  /\ fileMode' = saveWalletMode(walletFile, fileMode, umask)
  /\ UNCHANGED umask
  /\ UNCHANGED scriptVars

RemoveProofs(m, ps) ==
  /\ Alone
  /\ walletFile' = OkFile(removeProofsForMint(loadWallet(walletFile), m, ps))
  /\ lockFile' = releaseLock(lockFile).file
  /\ lastCall' = Call("remove", m, ps, 0)
  /\ prevWallet' = loadWallet(walletFile)
  /\ returned' = Nothing
  /\ UNCHANGED <<pc, lockPid, elapsed, waitUntil, wallet, fnResult, result, adds,
                 pureAdds, held, solo, relAbsent>>
  /\ UNCHANGED counterVars
  /\ UNCHANGED <<overwritten, prevCounters>>
  /\ fileMode' = saveWalletMode(walletFile, fileMode, umask)
  /\ UNCHANGED umask
  /\ UNCHANGED scriptVars

SaveProofs(m, ps) ==
  /\ Alone
  /\ Fits(saveProofsForMint(loadWallet(walletFile), m, ps))
  /\ walletFile' = OkFile(saveProofsForMint(loadWallet(walletFile), m, ps))
  /\ lockFile' = releaseLock(lockFile).file
  /\ lastCall' = Call("replace", m, ps, 0)
  /\ prevWallet' = loadWallet(walletFile)
  /\ returned' = Nothing
  /\ UNCHANGED <<pc, lockPid, elapsed, waitUntil, wallet, fnResult, result, adds,
                 pureAdds, held, solo, relAbsent>>
  /\ UNCHANGED counterVars
  /\ UNCHANGED <<overwritten, prevCounters>>
  /\ fileMode' = saveWalletMode(walletFile, fileMode, umask)
  /\ UNCHANGED umask
  /\ UNCHANGED scriptVars

\* A read that creates the wallet file when there is none.
GetProofsCreating(m) ==
  /\ \A p \in Procs : pc[p] = "idle"
  /\ walletFile' = OkFile(loadWallet(walletFile))
  /\ lastCall' = Call("get", m, <<>>, 0)
  /\ prevWallet' = loadWallet(walletFile)
  /\ returned' = [Nothing EXCEPT !.proofs = getProofsForMint(walletFile, m)]
  /\ UNCHANGED <<pc, lockFile, lockPid, elapsed, waitUntil, wallet, fnResult, result, adds,
                 pureAdds, held, solo, relAbsent>>
  /\ UNCHANGED counterVars
  /\ UNCHANGED <<overwritten, prevCounters>>
  /\ fileMode' = saveWalletMode(walletFile, fileMode, umask)
  /\ UNCHANGED umask
  /\ UNCHANGED scriptVars

\* getProofsForMint(mintUrl): no lock is taken, nothing is written.
GetProofs(m) ==
  /\ \A p \in Procs : pc[p] = "idle"
  /\ lastCall' = Call("get", m, <<>>, 0)
  /\ prevWallet' = loadWallet(walletFile)
  /\ returned' = [Nothing EXCEPT !.proofs = getProofsForMint(walletFile, m)]
  /\ UNCHANGED storeVars
  /\ UNCHANGED counterVars
  /\ UNCHANGED <<overwritten, prevCounters>>
  /\ UNCHANGED modeVars
  /\ UNCHANGED scriptVars

\* getBalanceForMint(mintUrl)
GetBalance(m) ==
  /\ \A p \in Procs : pc[p] = "idle"
  /\ lastCall' = Call("balance", m, <<>>, 0)
  /\ prevWallet' = loadWallet(walletFile)
  /\ returned' = [Nothing EXCEPT !.balance = getBalanceForMint(walletFile, m)]
  /\ UNCHANGED storeVars
  /\ UNCHANGED counterVars
  /\ UNCHANGED <<overwritten, prevCounters>>
  /\ UNCHANGED modeVars
  /\ UNCHANGED scriptVars

StoreNext ==
  \/ \E m \in Mints, ps \in SeqProofSeqs : AddProofs(m, ps)
  \/ \E m \in Mints, ps \in SeqProofSeqs : RemoveProofs(m, ps)
  \/ \E m \in Mints, ps \in SeqProofSeqs : SaveProofs(m, ps)
  \/ \E m \in Mints : GetProofs(m)
  \/ \E m \in Mints : GetBalance(m)

StoreSpec == Init /\ [][StoreNext]_vars

(***************************************************************************)
(* Deterministic wallet sessions and the counter file.                     *)
(***************************************************************************)

\* A createWallet whose load rewrites a counter file that does not parse.
CreateWalletResetting(p, k) ==
  /\ cpc[p] = "off"
  /\ keysetId' = [keysetId EXCEPT ![p] = k]
  /\ counterInit' = [counterInit EXCEPT ![p] = loadCounters(counterFile)]
  /\ session' = [session EXCEPT ![p] = loadCounters(counterFile)]
  /\ cpc' = [cpc EXCEPT ![p] = "ready"]
  /\ counterFile' = IF counterFile.state = "torn" THEN OkCounterFile(EmptyCounters)
                                                 ELSE counterFile
  /\ UNCHANGED <<counters, lastCounters>>
  /\ UNCHANGED storeVars
  /\ UNCHANGED callVars
  /\ UNCHANGED modeVars
  /\ UNCHANGED scriptVars

\* A createWallet that starts every session at index 0.
CreateWalletFresh(p, k) ==
  /\ cpc[p] = "off"
  /\ keysetId' = [keysetId EXCEPT ![p] = k]
  /\ counterInit' = [counterInit EXCEPT ![p] = EmptyCounters]
  /\ session' = [session EXCEPT ![p] = EmptyCounters]
  /\ cpc' = [cpc EXCEPT ![p] = "ready"]
  /\ UNCHANGED <<counterFile, counters, lastCounters>>
  /\ UNCHANGED storeVars
  /\ UNCHANGED callVars
  /\ UNCHANGED modeVars
  /\ UNCHANGED scriptVars

\* createWallet: getDeterministicConfig reads counterInit from the counter
\* file; the Wallet starts its counters there and binds to its mint's keyset.
CreateWallet(p, k) ==
  /\ cpc[p] = "off"
  /\ keysetId' = [keysetId EXCEPT ![p] = k]
  /\ counterInit' = [counterInit EXCEPT ![p] = loadCounters(counterFile)]
  /\ session' = [session EXCEPT ![p] = loadCounters(counterFile)]
  /\ cpc' = [cpc EXCEPT ![p] = "ready"]
  /\ UNCHANGED <<counterFile, counters, lastCounters>>
  /\ UNCHANGED storeVars
  /\ UNCHANGED callVars
  /\ UNCHANGED modeVars
  /\ UNCHANGED scriptVars

\* The Wallet consumes n derivation indices of its keyset and notifies
\* countersReserved({keysetId, next}); the handler calls updateCounter, which
\* reads the counter file and takes the maximum, all in the same turn.
Reserve(p, n) ==
  /\ cpc[p] = "ready"
  /\ counterOf(session[p], keysetId[p]) + n <= MaxIndex
  /\ session' = [session EXCEPT ![p] =
                   setCounter(session[p], keysetId[p], counterOf(session[p], keysetId[p]) + n)]
  /\ counters' = [counters EXCEPT ![p] =
                    updateCounter(loadCounters(counterFile), keysetId[p],
                                  counterOf(session[p], keysetId[p]) + n)]
  /\ cpc' = [cpc EXCEPT ![p] = "ucOpen"]
  /\ UNCHANGED <<keysetId, counterFile, counterInit, lastCounters>>
  /\ UNCHANGED storeVars
  /\ UNCHANGED callVars
  /\ UNCHANGED modeVars
  /\ UNCHANGED scriptVars

\* recover: updateCounter(wallet.keysetId, result.lastCounterWithSignature + 1),
\* up to the read of the counter file and the maximum.
Advance(p, last) ==
  /\ cpc[p] = "ready"
  /\ counters' = [counters EXCEPT ![p] =
                    updateCounter(loadCounters(counterFile), keysetId[p], last + 1)]
  /\ cpc' = [cpc EXCEPT ![p] = "ucOpen"]
  /\ UNCHANGED <<keysetId, counterFile, counterInit, session, lastCounters>>
  /\ UNCHANGED storeVars
  /\ UNCHANGED callVars
  /\ UNCHANGED modeVars
  /\ UNCHANGED scriptVars

\* saveCounters: writeFileSync(COUNTER_FILE, ...) opens the file, truncating it.
UcOpen(p) ==
  /\ cpc[p] = "ucOpen"
  /\ counterFile' = TornCounterFile
  /\ cpc' = [cpc EXCEPT ![p] = "ucWrite"]
  /\ UNCHANGED <<keysetId, counterInit, session, counters, lastCounters>>
  /\ UNCHANGED storeVars
  /\ UNCHANGED callVars
  /\ UNCHANGED modeVars
  /\ UNCHANGED scriptVars

\* saveCounters: the content is written; updateCounter returns.
UcWrite(p) ==
  /\ cpc[p] = "ucWrite"
  /\ counterFile' = OkCounterFile(counters[p])
  /\ lastCounters' = counters[p]
  /\ counters' = [counters EXCEPT ![p] = EmptyCounters]
  /\ cpc' = [cpc EXCEPT ![p] = "ready"]
  /\ UNCHANGED <<keysetId, counterInit, session>>
  /\ UNCHANGED storeVars
  /\ UNCHANGED callVars
  /\ UNCHANGED modeVars
  /\ UNCHANGED scriptVars

\* The process ends (the script is done, or it is killed): its Wallet is gone.
EndProcess(p) ==
  /\ cpc[p] # "off"
  /\ cpc' = [cpc EXCEPT ![p] = "off"]
  /\ keysetId' = [keysetId EXCEPT ![p] = "-"]
  /\ counterInit' = [counterInit EXCEPT ![p] = EmptyCounters]
  /\ session' = [session EXCEPT ![p] = EmptyCounters]
  /\ counters' = [counters EXCEPT ![p] = EmptyCounters]
  /\ UNCHANGED <<counterFile, lastCounters>>
  /\ UNCHANGED storeVars
  /\ UNCHANGED callVars
  /\ UNCHANGED modeVars
  /\ UNCHANGED scriptVars

CounterNext ==
  \/ \E p \in Procs, k \in Keysets : CreateWallet(p, k)
  \/ \E p \in Procs, n \in 1..MaxCount : Reserve(p, n)
  \/ \E p \in Procs, last \in 0..(MaxIndex - 1) : Advance(p, last)
  \/ \E p \in Procs : UcOpen(p)
  \/ \E p \in Procs : UcWrite(p)
  \/ \E p \in Procs : EndProcess(p)

\* The sessions start with no lock marker around.
CounterInit == Init /\ lockFile = <<>>

CounterSpec == CounterInit /\ [][CounterNext]_vars

(***************************************************************************)
(* Wallet sessions that run one after another: each call on the counter    *)
(* store runs to its end before the next call begins (Reserve or Advance,  *)
(* then UcOpen and UcWrite above, with no other process in between).       *)
(***************************************************************************)
NoSession == \A q \in Procs : cpc[q] = "off"

\* createWallet, with no other session running.
OpenSession(p, k) == NoSession /\ CreateWallet(p, k)

\* A Wallet without the countersReserved hook: nothing is persisted.
ReserveUnhooked(p, n) ==
  /\ cpc[p] = "ready"
  /\ counterOf(session[p], keysetId[p]) + n <= MaxIndex
  /\ session' = [session EXCEPT ![p] =
                   setCounter(session[p], keysetId[p], counterOf(session[p], keysetId[p]) + n)]
  /\ lastCall' = Call("reserve", keysetId[p], <<>>, n)
  /\ prevCounters' = loadCounters(counterFile)
  /\ returned' = [Nothing EXCEPT !.indices =
                     counterOf(session[p], keysetId[p]) ..
                       (counterOf(session[p], keysetId[p]) + n - 1)]
  /\ UNCHANGED <<cpc, keysetId, counterFile, counterInit, counters, lastCounters>>
  /\ UNCHANGED storeVars
  /\ UNCHANGED <<overwritten, prevWallet>>
  /\ UNCHANGED modeVars
  /\ UNCHANGED scriptVars

\* The Wallet consumes n derivation indices of its keyset, from its own
\* counter on; countersReserved -> updateCounter(keysetId, next) runs to its end.
ReserveAlone(p, n) ==
  /\ cpc[p] = "ready"
  /\ counterOf(session[p], keysetId[p]) + n <= MaxIndex
  /\ session' = [session EXCEPT ![p] =
                   setCounter(session[p], keysetId[p], counterOf(session[p], keysetId[p]) + n)]
  /\ counterFile' = OkCounterFile(updateCounter(loadCounters(counterFile), keysetId[p],
                                                counterOf(session[p], keysetId[p]) + n))
  /\ lastCounters' = updateCounter(loadCounters(counterFile), keysetId[p],
                                   counterOf(session[p], keysetId[p]) + n)
  /\ lastCall' = Call("reserve", keysetId[p], <<>>, n)
  /\ prevCounters' = loadCounters(counterFile)
  /\ returned' = [Nothing EXCEPT !.indices =
                     counterOf(session[p], keysetId[p]) ..
                       (counterOf(session[p], keysetId[p]) + n - 1)]
  /\ UNCHANGED <<cpc, keysetId, counterInit, counters>>
  /\ UNCHANGED storeVars
  /\ UNCHANGED <<overwritten, prevWallet>>
  /\ UNCHANGED modeVars
  /\ UNCHANGED scriptVars

\* updateCounter(keysetId, next) run to its end, by a process of its own
\* (recover), with no session running.
AdvanceAlone(k, next) ==
  /\ NoSession
  /\ counterFile' = OkCounterFile(updateCounter(loadCounters(counterFile), k, next))
  /\ lastCounters' = updateCounter(loadCounters(counterFile), k, next)
  /\ lastCall' = Call("advance", k, <<>>, next)
  /\ prevCounters' = loadCounters(counterFile)
  /\ returned' = Nothing
  /\ UNCHANGED <<cpc, keysetId, counterInit, session, counters>>
  /\ UNCHANGED storeVars
  /\ UNCHANGED <<overwritten, prevWallet>>
  /\ UNCHANGED modeVars
  /\ UNCHANGED scriptVars

\* The session's process ends, between two calls.
CloseSession(p) == cpc[p] = "ready" /\ EndProcess(p)

SessionNext ==
  \/ \E p \in Procs, k \in Keysets : OpenSession(p, k)
  \/ \E p \in Procs, n \in 1..MaxCount : ReserveAlone(p, n)
  \/ \E k \in Keysets, next \in 1..MaxIndex : AdvanceAlone(k, next)
  \/ \E p \in Procs : CloseSession(p)

SessionSpec == CounterInit /\ [][SessionNext]_vars

(***************************************************************************)
(* Loads alone: the files are as an earlier run left them (missing, not    *)
(* parsing, or complete) and the only calls made are reads.                *)
(***************************************************************************)
\* No call is under way and none has been made.
AtRest ==
  /\ pc = [p \in Procs |-> "idle"]
  /\ lockPid = [p \in Procs |-> <<>>]
  /\ elapsed = [p \in Procs |-> 0]
  /\ waitUntil = [p \in Procs |-> 0]
  /\ wallet = [p \in Procs |-> EmptyWallet]
  /\ fnResult = [p \in Procs |-> "none"]
  /\ result = [p \in Procs |-> "none"]
  /\ adds = {}
  /\ pureAdds = TRUE
  /\ held = [p \in Procs |-> FALSE]
  /\ solo = [p \in Procs |-> FALSE]
  /\ relAbsent = FALSE
  /\ cpc = [p \in Procs |-> "off"]
  /\ keysetId = [p \in Procs |-> "-"]
  /\ counterInit = [p \in Procs |-> EmptyCounters]
  /\ session = [p \in Procs |-> EmptyCounters]
  /\ counters = [p \in Procs |-> EmptyCounters]
  /\ lastCounters = EmptyCounters
  /\ lastCall = NoCall
  /\ overwritten = EmptyWallet
  /\ prevWallet = EmptyWallet
  /\ prevCounters = EmptyCounters
  /\ returned = Nothing

LoadInit ==
  /\ AtRest
  /\ lockFile = <<>>
  /\ walletFile \in {NoFile, TornFile}
                     \cup {OkFile([m \in {"mA"} |-> ps]) : ps \in SeqsUpTo(Proofs, 1)}
  /\ counterFile \in {NoCounterFile, TornCounterFile}
                      \cup {OkCounterFile([k \in {"k1"} |-> v]) : v \in 1..MaxIndex}
  /\ fileMode = IF walletFile.state = "absent" THEN {} ELSE Mode600
  /\ umask = Umask022
  /\ NoScript

LoadNext ==
  \/ \E m \in Mints : GetProofs(m)
  \/ \E m \in Mints : GetBalance(m)
  \/ \E p \in Procs, k \in Keysets : CreateWallet(p, k)
  \/ \E p \in Procs : EndProcess(p)

LoadSpec == LoadInit /\ [][LoadNext]_vars

(***************************************************************************)
(* Every writer of the wallet file, one call after another, on a file of   *)
(* any earlier mode and under any umask: the store's saveWallet and the    *)
(* two restore scripts, which write WALLET_FILE themselves.                *)
(***************************************************************************)
\* The wallet object of a backup.
BackupWallets == {EmptyWallet} \cup {[m \in {"mB"} |-> <<pr>>] : pr \in Proofs}

\* restore.js, first variant: the wallet of the backup replaces the file;
\* writeFileSync with { mode: 0o600 }, then chmodSync 0o600.  (The copy to
\* the pre-restore file, which leaves WALLET_FILE and its mode alone, is
\* RestoreCopy below.)
RestoreFromFile(w) ==
  /\ Alone
  /\ walletFile' = OkFile(w)
  /\ fileMode' = chmodSync(writeFileMode(walletFile, fileMode, Mode600, umask), Mode600)
  /\ lastCall' = Call("restore", "-", <<>>, 0)
  /\ prevWallet' = loadWallet(walletFile)
  /\ returned' = Nothing
  /\ UNCHANGED <<pc, lockFile, lockPid, elapsed, waitUntil, wallet, fnResult, result, adds,
                 pureAdds, held, solo, relAbsent>>
  /\ UNCHANGED counterVars
  /\ UNCHANGED <<overwritten, prevCounters>>
  /\ UNCHANGED umask
  /\ UNCHANGED scriptVars

\* existingBalance of the second restore variant: the amounts of all proofs
\* of the wallet file.
RECURSIVE balanceOver(_, _)
balanceOver(w, ms) ==
  IF ms = {} THEN 0
  ELSE LET m == CHOOSE x \in ms : TRUE
       IN reduceSum(w[m], 0) + balanceOver(w, ms \ {m})

existingBalance(f) == balanceOver(f.data, DOMAIN f.data)

\* restore.js, second variant: refuses a wallet file that holds value (and
\* ends on one that does not parse); otherwise a plain writeFileSync, with
\* neither a mode option nor a chmod.
RestoreBackup(w) ==
  /\ Alone
  /\ \/ walletFile.state = "absent"
     \/ walletFile.state = "ok" /\ existingBalance(walletFile) = 0
  /\ walletFile' = OkFile(w)
  /\ fileMode' = writeFileMode(walletFile, fileMode, Mode666, umask)
  /\ lastCall' = Call("restore", "-", <<>>, 0)
  /\ prevWallet' = loadWallet(walletFile)
  /\ returned' = Nothing
  /\ UNCHANGED <<pc, lockFile, lockPid, elapsed, waitUntil, wallet, fnResult, result, adds,
                 pureAdds, held, solo, relAbsent>>
  /\ UNCHANGED counterVars
  /\ UNCHANGED <<overwritten, prevCounters>>
  /\ UNCHANGED umask
  /\ UNCHANGED scriptVars

PermInit ==
  /\ AtRest
  /\ lockFile = <<>>
  /\ walletFile \in {NoFile, TornFile, OkFile(EmptyWallet)}
                     \cup {OkFile([m \in {"mA"} |-> <<pr>>]) : pr \in Proofs}
  /\ counterFile = NoCounterFile
  /\ fileMode \in (IF walletFile.state = "absent" THEN {{}}
                   ELSE {Mode600, Mode666 \ Umask022, Mode666})
  /\ umask \in Umasks
  /\ NoScript

PermNext ==
  \/ \E m \in Mints, ps \in SeqsUpTo(Proofs, MaxArgLen) : AddProofs(m, ps)
  \/ \E m \in Mints, ps \in SeqsUpTo(Proofs, MaxArgLen) : RemoveProofs(m, ps)
  \/ \E m \in Mints, ps \in SeqsUpTo(Proofs, MaxArgLen) : SaveProofs(m, ps)
  \/ \E w \in BackupWallets : RestoreFromFile(w)
  \/ \E w \in BackupWallets : RestoreBackup(w)

PermSpec == PermInit /\ [][PermNext]_vars

(***************************************************************************)
(* The locking scripts lock-multisig and send-to-group, each run once on   *)
(* a command line drawn at the start, against a wallet that holds value.   *)
(***************************************************************************)
DefaultMint == "mA"

\* The current time.
Now == 2

XOnlyKey == Chars(64, "a")

\* parseArgs of lock-multisig: --self appends getCashuPubkey() to the keys.
parseArgs(a) ==
  [a EXCEPT !.pubkeys = a.pubkeys \o [i \in DOMAIN a.self |-> getCashuPubkey(a.self[i])]]

\* A parseArgs of send-to-group whose default is two signatures.
parseGroupArgsDefaultTwo(a) ==
  [a EXCEPT !.threshold = IF a.threshold = Omitted THEN Given(2) ELSE a.threshold]

\* parseArgs of send-to-group: result = { threshold: 1 }, replaced by --threshold N.
parseGroupArgs(a) ==
  [a EXCEPT !.threshold = IF a.threshold = Omitted THEN Given(1) ELSE a.threshold]

\* if (refundKeys.length > 0 && opts.locktime)
withRefund(opts) == opts.refundKeys # <<>> /\ Truthy(opts.locktime)

\* What main of lock-multisig asks of the P2PKBuilder.
buildLock(opts) ==
  LET pubkeys == mapNormalize(opts.pubkeys)
      refundKeys == mapNormalize(opts.refundKeys)
      \* const threshold = opts.threshold || pubkeys.length
      threshold == IF Truthy(opts.threshold) THEN opts.threshold[1] ELSE Len(pubkeys)
  IN [pubkeys |-> pubkeys,
      nSigs |-> IF threshold < Len(pubkeys) THEN Given(threshold) ELSE Omitted,
      refundKeys |-> IF withRefund(opts) THEN refundKeys ELSE <<>>,
      locktime |-> IF withRefund(opts) THEN opts.locktime ELSE Omitted,
      nSigsRefund |-> IF withRefund(opts) /\ Truthy(opts.refundThreshold)
                      THEN opts.refundThreshold ELSE Omitted,
      shown |-> threshold]

\* const p2pkOptions = { pubkeys: resolved.pubkeys, n_sigs: threshold }
groupLock(args) ==
  [pubkeys |-> args.pubkeys, nSigs |-> args.threshold, refundKeys |-> <<>>,
   locktime |-> Omitted, nSigsRefund |-> Omitted, shown |-> args.threshold[1]]

\* The cashu-ts library is not part of the repository. A request within
\* the range NUT-11 gives is taken; one outside it may be taken or thrown
\* back. Where no signature count was asked, the count that applies is the
\* library's: one signature (NUT-11's default) or all keys (what the
\* script's comment expects).
InContract(b) ==
  /\ b.nSigs # Omitted => b.nSigs[1] \in 1..Len(b.pubkeys)
  /\ b.locktime # Omitted => b.locktime[1] > Now
  /\ b.nSigsRefund # Omitted => b.nSigsRefund[1] \in 1..Len(b.refundKeys)

\* The script ends with process.exit(1) or an error; nothing else happens.
Fail(outcome) ==
  /\ lock' = [NoLock EXCEPT !.outcome = outcome]
  /\ UNCHANGED <<storeVars, counterVars, callVars, modeVars, argv>>
  /\ UNCHANGED <<keystore, seeds, console, configFile, run, preRestore>>

\* wallet.ops.send(amount, proofs).asP2PK(options).run() swaps the proofs,
\* then store.saveProofsForMint(mintUrl, keep).
Locked(b, d, keep) ==
  /\ lock' = [outcome |-> "locked", pubkeys |-> b.pubkeys, nSigs |-> b.nSigs,
              required |-> IF b.nSigs # Omitted THEN b.nSigs[1] ELSE d,
              refundKeys |-> b.refundKeys, locktime |-> b.locktime,
              nSigsRefund |-> b.nSigsRefund, shown |-> b.shown]
  /\ walletFile' = OkFile(saveProofsForMint(loadWallet(walletFile), DefaultMint, keep))
  /\ lockFile' = releaseLock(lockFile).file
  /\ lastCall' = Call("replace", DefaultMint, keep, 0)
  /\ prevWallet' = loadWallet(walletFile)
  /\ returned' = Nothing
  /\ fileMode' = saveWalletMode(walletFile, fileMode, umask)
  /\ UNCHANGED <<pc, lockPid, elapsed, waitUntil, wallet, fnResult, result, adds,
                 pureAdds, held, solo, relAbsent>>
  /\ UNCHANGED counterVars
  /\ UNCHANGED <<overwritten, prevCounters, umask, argv>>
  /\ UNCHANGED <<keystore, seeds, console, configFile, run, preRestore>>

\* The proofs the swap leaves to the sender: worth the balance less the amount.
Keeps(balance, amount) ==
  {keep \in SeqsUpTo(Proofs, MaxArgLen) : reduceSum(keep, 0) = balance - amount}

\* main of lock-multisig
LockMultisig(d, accepted) ==
  /\ Alone
  /\ argv.script = "lock-multisig"
  /\ lock.outcome = "none"
  /\ LET opts == parseArgs(argv)
         b == buildLock(opts)
         balance == reduceSum(getProofsForMint(walletFile, DefaultMint), 0)
     IN IF opts.amount <= 0 \/ opts.pubkeys = <<>> THEN Fail("usage")
        ELSE IF balance < opts.amount THEN Fail("insufficient")
        ELSE /\ d \in {1, Len(b.pubkeys)}
             /\ accepted \/ ~InContract(b)
             /\ IF accepted
                THEN \E keep \in Keeps(balance, opts.amount) : Locked(b, d, keep)
                ELSE Fail("error")

\* main of send-to-group
SendToGroup(accepted) ==
  /\ Alone
  /\ argv.script = "send-to-group"
  /\ lock.outcome = "none"
  /\ LET args == parseGroupArgs(argv)
         b == groupLock(args)
         balance == reduceSum(getProofsForMint(walletFile, DefaultMint), 0)
     IN IF args.amount <= 0 THEN Fail("usage")
        ELSE IF args.pubkeys = <<>> THEN Fail("rejected")
        ELSE IF args.threshold[1] > Len(args.pubkeys) THEN Fail("rejected")
        ELSE IF balance < args.amount THEN Fail("insufficient")
        ELSE /\ accepted \/ ~InContract(b)
             /\ IF accepted
                THEN \E keep \in Keeps(balance, args.amount) : Locked(b, args.threshold[1], keep)
                ELSE Fail("error")

\* The command lines: lock-multisig with keys of both forms, --self, any
\* threshold, refund keys of every form, a refund threshold and a lock time
\* before or after now; send-to-group with the group's resolved keys.
ScriptArgs ==
  LET amounts == {1, 3}
      thresholds == {Omitted} \cup {Given(n) : n \in 0..(MaxKeys + 1)}
  IN [script : {"lock-multisig"}, amount : amounts,
      pubkeys : SeqsUpTo({XOnlyKey, Hex02 \o Chars(64, "b")}, MaxKeys),
      self : {<<>>, <<Chars(64, "c")>>},
      threshold : thresholds,
      refundKeys : {<<>>, <<XOnlyKey>>, <<<<"0", "4">> \o Chars(64, "d")>>, <<Chars(62, "e")>>},
      refundThreshold : {Omitted} \cup {Given(n) : n \in 0..2},
      locktime : {Omitted, Given(Now - 1), Given(Now + 1)}]
     \cup
     [script : {"send-to-group"}, amount : amounts,
      pubkeys : SeqsUpTo({Hex02 \o Chars(64, "b"), <<"0", "3">> \o Chars(64, "c")}, MaxKeys),
      self : {<<>>}, threshold : thresholds, refundKeys : {<<>>},
      refundThreshold : {Omitted}, locktime : {Omitted}]

LockInit ==
  /\ AtRest
  /\ lockFile = <<>>
  /\ walletFile = OkFile([m \in {DefaultMint} |-> <<[secret |-> "s1", amount |-> 2]>>])
  /\ counterFile = NoCounterFile
  /\ fileMode = Mode600
  /\ umask = Umask022
  /\ argv \in ScriptArgs
  /\ lock = NoLock
  /\ NoDerivation

LockNext ==
  \/ \E d \in 1..(MaxKeys + 1), accepted \in BOOLEAN : LockMultisig(d, accepted)
  \/ \E accepted \in BOOLEAN : SendToGroup(accepted)

LockSpec == LockInit /\ [][LockNext]_vars

(***************************************************************************)
(* Deterministic mode: getDeterministicConfig and the scripts               *)
(* init-deterministic and recover, each process running one of them once,  *)
(* over a keystore drawn at the start.                                     *)
(***************************************************************************)
\* ARCHON_PASSPHRASE set or not, show-mnemonic succeeding or not, and its
\* output: n times one word, with n below, at, between and above 12 and 24.
Keystores ==
  [passphrase : BOOLEAN, ok : BOOLEAN,
   words : {[i \in 1..n |-> w] : w \in {"abandon", "ecole-composed", "ecole-decomposed"},
                                 n \in {0, 11, 12, 13, 24, 25}}]

Line(kind, n, seed) == [kind |-> kind, n |-> n, seed |-> seed]
Text(kind) == Line(kind, 0, NoSeed)
\* seed.slice(0, 4).toString('hex'): the first four bytes of the seed
Fingerprint(seed) == Line("fingerprint", 4, seed)

\* getDeterministicConfig, as createWallet calls it: the seed or null.
GetDeterministicConfig(p) ==
  /\ ~seeds[p].called
  /\ seeds' = [seeds EXCEPT ![p] = Returned(deriveCashuSeed(keystore))]
  /\ UNCHANGED <<storeVars, counterVars, callVars, modeVars>>
  /\ UNCHANGED <<argv, lock, keystore, console, configFile, run, preRestore>>

\* main of init-deterministic; mintUp: wallet.loadMint() succeeds.
InitDeterministic(p, checkOnly, mintUp, k) ==
  /\ ~seeds[p].called
  /\ Alone
  /\ IF ~keystore.passphrase
       THEN /\ console' = console \cup {Text("ARCHON_PASSPHRASE not set")}
            /\ UNCHANGED <<seeds, configFile>>
     ELSE IF getMnemonic(keystore) = <<>>
       THEN /\ console' = console \cup {Text("ARCHON_PASSPHRASE set"),
                                         Text("Could not retrieve Archon mnemonic")}
            /\ UNCHANGED <<seeds, configFile>>
     ELSE /\ seeds' = [seeds EXCEPT ![p] = Returned(deriveCashuSeed(keystore))]
          /\ console' = console
                \cup {Text("ARCHON_PASSPHRASE set"),
                      Line("Words", Len(getMnemonic(keystore)), NoSeed),
                      Fingerprint(deriveCashuSeed(keystore))}
                \cup (IF checkOnly THEN {Text("Deterministic mode is available")}
                      ELSE {Line("Counter state", Cardinality(DOMAIN loadCounters(counterFile)),
                                 NoSeed)}
                             \cup (IF mintUp THEN {Text("Deterministic Mode Enabled")}
                                             ELSE {Text("Wallet initialization failed")}))
          /\ configFile' = IF ~checkOnly /\ mintUp
                           THEN [mode |-> "deterministic", defaultMint |-> DefaultMint,
                                 keysetId |-> k]
                           ELSE configFile
  /\ UNCHANGED <<storeVars, counterVars, callVars, modeVars>>
  /\ UNCHANGED <<argv, lock, keystore, run, preRestore>>

\* main of recover; ps: the proofs batchRestore finds, last: its
\* lastCounterWithSignature, k: the keyset of the mint.
Recover(p, ps, last, k) ==
  /\ ~seeds[p].called
  /\ Alone
  /\ NoSession
  /\ Fits(addProofsForMint(loadWallet(walletFile), DefaultMint, ps))
  /\ last # Omitted => last[1] + 1 <= MaxIndex
  /\ IF ~keystore.passphrase \/ deriveCashuSeed(keystore) = NoSeed
       THEN /\ console' = console \cup
                  {IF ~keystore.passphrase THEN Text("ARCHON_PASSPHRASE required for recovery")
                   ELSE Text("Could not derive seed from Archon mnemonic")}
            /\ seeds' = IF keystore.passphrase
                        THEN [seeds EXCEPT ![p] = Returned(deriveCashuSeed(keystore))]
                        ELSE seeds
            /\ UNCHANGED <<storeVars, counterVars, callVars, modeVars>>
     ELSE LET stored == IF ps = <<>> THEN walletFile
                        ELSE OkFile(addProofsForMint(loadWallet(walletFile), DefaultMint, ps))
              advanced == IF ps = <<>> \/ last = Omitted THEN counterFile
                          ELSE OkCounterFile(updateCounter(loadCounters(counterFile), k,
                                                           last[1] + 1))
          IN /\ seeds' = [seeds EXCEPT ![p] = Returned(deriveCashuSeed(keystore))]
             /\ console' = console
                   \cup {Fingerprint(deriveCashuSeed(keystore)),
                         Line("Starting counters", Cardinality(DOMAIN loadCounters(counterFile)),
                              NoSeed),
                         Line("Final balance", getBalanceForMint(stored, DefaultMint), NoSeed)}
             /\ walletFile' = stored
             /\ fileMode' = IF ps = <<>> THEN fileMode
                            ELSE saveWalletMode(walletFile, fileMode, umask)
             /\ lockFile' = IF ps = <<>> THEN lockFile ELSE releaseLock(lockFile).file
             /\ counterFile' = advanced
             /\ lastCounters' = IF advanced = counterFile THEN lastCounters
                                ELSE advanced.data
             /\ lastCall' = Call("balance", DefaultMint, <<>>, 0)
             /\ prevWallet' = loadWallet(stored)
             /\ prevCounters' = loadCounters(counterFile)
             /\ returned' = [Nothing EXCEPT !.balance = getBalanceForMint(stored, DefaultMint)]
             /\ UNCHANGED <<pc, lockPid, elapsed, waitUntil, wallet, fnResult, result, adds,
                            pureAdds, held, solo, relAbsent>>
             /\ UNCHANGED <<cpc, keysetId, counterInit, session, counters>>
             /\ UNCHANGED <<overwritten, umask>>
  /\ UNCHANGED <<argv, lock, keystore, configFile, run, preRestore>>

DetInit ==
  /\ AtRest
  /\ lockFile = <<>>
  /\ walletFile = NoFile
  /\ counterFile = NoCounterFile
  /\ fileMode = {}
  /\ umask = Umask022
  /\ argv = NoArgs
  /\ lock = NoLock
  /\ keystore \in Keystores
  /\ seeds = [p \in Procs |-> NotCalled]
  /\ console = {}
  /\ configFile = NoConfig
  /\ run = [p \in Procs |-> NoRun]
  /\ preRestore = {}

DetNext ==
  \/ \E p \in Procs : GetDeterministicConfig(p)
  \/ \E p \in Procs, checkOnly \in BOOLEAN, mintUp \in BOOLEAN, k \in Keysets :
        InitDeterministic(p, checkOnly, mintUp, k)
  \/ \E p \in Procs, ps \in SeqsUpTo(Proofs, MaxArgLen), k \in Keysets,
        last \in {Omitted} \cup {Given(n) : n \in 0..(MaxIndex - 1)} :
        Recover(p, ps, last, k)

DetSpec == DetInit /\ [][DetNext]_vars

(***************************************************************************)
(* The scripts that move value: send and send-to-did (dmail-send does the  *)
(* same), melt, receive, mint --quote and recover. Each process runs one   *)
(* script once. A call on the proof store or on the counter store runs to  *)
(* its end in one step, a call on the mint is a step of its own, and the   *)
(* steps of different processes interleave.                                *)
(***************************************************************************)
SendScripts == {"send", "send-to-did"}

\* A proof the mint signs for process p: no secret is given twice.
Signed(p, role, amount) ==
  LET fresh == [keep |-> <<"k1", "k2">>, send |-> <<"t1", "t2">>,
                change |-> <<"c1", "c2">>, got |-> <<"r1", "r2">>]
  IN [secret |-> fresh[role][p], amount |-> amount]

\* const { keep, send } = await wallet.send(amount, proofs): the library
\* hands out proofs that are worth the amount as they are, or has all the
\* proofs swapped at the mint for fresh ones, send worth the amount and
\* keep worth the rest.
Splits(p, proofs, amount) ==
  LET balance == reduceSum(proofs, 0)
      secrets == SecretsOf(proofs)
  IN {[keep |-> FilterOut(proofs, S), send |-> FilterOut(proofs, secrets \ S),
       swapped |-> FALSE] :
        S \in {T \in SUBSET secrets : reduceSum(FilterOut(proofs, secrets \ T), 0) = amount}}
     \cup
     {[keep |-> IF balance > amount THEN <<Signed(p, "keep", balance - amount)>> ELSE <<>>,
       send |-> <<Signed(p, "send", amount)>>,
       swapped |-> TRUE]}

\* add / saveProofsForMint, run from the call of withLock to its return.
StoreCall(kind, m, ps) ==
  LET stored == ApplyOp(loadWallet(walletFile), [kind |-> kind, mint |-> m, proofs |-> ps])
  IN /\ Alone
     /\ Fits(stored)
     /\ walletFile' = OkFile(stored)
     /\ fileMode' = saveWalletMode(walletFile, fileMode, umask)
     /\ lockFile' = releaseLock(lockFile).file
     /\ lastCall' = Call(kind, m, ps, 0)
     /\ prevWallet' = loadWallet(walletFile)
     /\ returned' = Nothing
     /\ UNCHANGED <<pc, lockPid, elapsed, waitUntil, wallet, fnResult, result, adds,
                    pureAdds, held, solo, relAbsent>>
     /\ UNCHANGED <<overwritten, prevCounters, umask>>

\* main of send, send-to-did and melt up to createWallet: the usage check,
\* store.getProofsForMint(mintUrl) with no lock taken, the balance check.
\* For melt the amount is what the quote of the invoice will come to.
ReadProofs(p, script, amount) ==
  /\ run[p] = NoRun
  /\ \A q \in Procs : pc[q] = "idle"
  /\ IF amount <= 0
       THEN /\ run' = [run EXCEPT ![p] = [NoRun EXCEPT !.script = script, !.at = "failed",
                                                       !.before = loadWallet(walletFile)]]
            /\ UNCHANGED callVars
       ELSE LET proofs == getProofsForMint(walletFile, DefaultMint)
                balance == reduceSum(proofs, 0)
                short == IF script = "melt" THEN balance = 0 ELSE balance < amount
            IN /\ run' = [run EXCEPT ![p] =
                            [NoRun EXCEPT !.script = script, !.mintUrl = DefaultMint,
                                          !.amount = amount, !.proofs = proofs,
                                          !.before = loadWallet(walletFile),
                                          !.at = IF short THEN "failed" ELSE "read"]]
               /\ lastCall' = Call("get", DefaultMint, <<>>, 0)
               /\ prevWallet' = loadWallet(walletFile)
               /\ returned' = [Nothing EXCEPT !.proofs = proofs]
               /\ UNCHANGED <<overwritten, prevCounters>>
  /\ UNCHANGED <<storeVars, counterVars, modeVars>>
  /\ UNCHANGED <<argv, lock, keystore, seeds, console, configFile, preRestore>>

\* send --verify: wallet.checkProofsSpent(proofs); if the mint reports
\* proofs spent, store.saveProofsForMint(mintUrl, validProofs) and the
\* balance is checked again.
Verify(p, spent) ==
  /\ run[p].script = "send"
  /\ run[p].at = "read"
  /\ LET validProofs == FilterOut(run[p].proofs, spent)
     IN IF Len(validProofs) < Len(run[p].proofs)
        THEN /\ StoreCall("replace", run[p].mintUrl, validProofs)
             /\ run' = [run EXCEPT ![p].proofs = validProofs,
                                   ![p].at = IF reduceSum(validProofs, 0) < run[p].amount
                                             THEN "failed" ELSE "verified"]
        ELSE /\ run' = [run EXCEPT ![p].at = "verified"]
             /\ UNCHANGED <<storeVars, callVars, modeVars>>
  /\ UNCHANGED counterVars
  /\ UNCHANGED <<argv, lock, keystore, seeds, console, configFile, preRestore>>

\* createWallet(mintUrl), for melt createMeltQuote and the check of the
\* balance against the quote, then wallet.send(amount, proofs). A call that
\* throws ends the script in main().catch.
Split(p, ok) ==
  /\ run[p].script \in SendScripts \cup {"melt"}
  /\ run[p].at \in {"read", "verified"}
  /\ IF ~ok \/ reduceSum(run[p].proofs, 0) < run[p].amount
       THEN run' = [run EXCEPT ![p].at = "failed"]
       ELSE \E s \in Splits(p, run[p].proofs, run[p].amount) :
              run' = [run EXCEPT ![p].at = "split", ![p].keep = s.keep,
                                 ![p].send = s.send, ![p].swapped = s.swapped]
  /\ UNCHANGED <<storeVars, counterVars, callVars, modeVars>>
  /\ UNCHANGED <<argv, lock, keystore, seeds, console, configFile, preRestore>>

\* melt: wallet.meltProofs(quote, send) pays the invoice and gives the
\* change, or throws.
MeltProofs(p, ok, change) ==
  /\ run[p].script = "melt"
  /\ run[p].at = "split"
  /\ run' = IF ok THEN [run EXCEPT ![p].at = "paid", ![p].change = change]
                  ELSE [run EXCEPT ![p].at = "failed"]
  /\ UNCHANGED <<storeVars, counterVars, callVars, modeVars>>
  /\ UNCHANGED <<argv, lock, keystore, seeds, console, configFile, preRestore>>

\* A save that adds the kept proofs to what is stored.
SaveKeepMerging(p) ==
  /\ \/ run[p].script \in SendScripts /\ run[p].at = "split"
     \/ run[p].script = "melt" /\ run[p].at = "paid"
  /\ StoreCall("add", run[p].mintUrl, run[p].keep \o run[p].change)
  /\ run' = [run EXCEPT ![p].at = "done"]
  /\ UNCHANGED counterVars
  /\ UNCHANGED <<argv, lock, keystore, seeds, console, configFile, preRestore>>

\* store.saveProofsForMint(mintUrl, keep); for melt, keep and the change.
SaveKeep(p) ==
  /\ \/ run[p].script \in SendScripts /\ run[p].at = "split"
     \/ run[p].script = "melt" /\ run[p].at = "paid"
  /\ StoreCall("replace", run[p].mintUrl, run[p].keep \o run[p].change)
  /\ run' = [run EXCEPT ![p].at = "done"]
  /\ UNCHANGED counterVars
  /\ UNCHANGED <<argv, lock, keystore, seeds, console, configFile, preRestore>>

\* main of receive and claimQuote of mint: wallet.receive(token) or
\* wallet.mintProofs(amount, quoteId) gives fresh proofs, or throws.
Receive(p, script, ok) ==
  /\ run[p] = NoRun
  /\ run' = [run EXCEPT ![p] =
               [NoRun EXCEPT !.script = script, !.mintUrl = DefaultMint,
                             !.before = loadWallet(walletFile),
                             !.proofs = IF ok THEN <<Signed(p, "got", 1)>> ELSE <<>>,
                             !.at = IF ok THEN "received" ELSE "failed"]]
  /\ UNCHANGED <<storeVars, counterVars, callVars, modeVars>>
  /\ UNCHANGED <<argv, lock, keystore, seeds, console, configFile, preRestore>>

\* store.addProofsForMint(mintUrl, proofs)
AddReceived(p) ==
  /\ run[p].script \in {"receive", "mint"}
  /\ run[p].at = "received"
  /\ StoreCall("add", run[p].mintUrl, run[p].proofs)
  /\ run' = [run EXCEPT ![p].at = "done"]
  /\ UNCHANGED counterVars
  /\ UNCHANGED <<argv, lock, keystore, seeds, console, configFile, preRestore>>

\* A recover that advances the counter before it stores the proofs.
RecoverAddCounterFirst(p, ps, last, k) ==
  /\ run[p] = NoRun
  /\ ps # <<>>
  /\ last # Omitted
  /\ run' = [run EXCEPT ![p] =
               [NoRun EXCEPT !.script = "recover", !.mintUrl = DefaultMint, !.proofs = ps,
                             !.keysetId = k, !.next = last[1] + 1,
                             !.counters = loadCounters(counterFile),
                             !.before = loadWallet(walletFile), !.at = "added"]]
  /\ counterFile' = OkCounterFile(updateCounter(loadCounters(counterFile), k, last[1] + 1))
  /\ lastCounters' = updateCounter(loadCounters(counterFile), k, last[1] + 1)
  /\ UNCHANGED <<cpc, keysetId, counterInit, session, counters>>
  /\ UNCHANGED <<storeVars, callVars, modeVars>>
  /\ UNCHANGED <<argv, lock, keystore, seeds, console, configFile, preRestore>>

\* main of recover from wallet.batchRestore() on (the seed is that of
\* Recover above): ps are the proofs it found, last is its
\* lastCounterWithSignature, k the keyset of the mint. Proofs that were
\* found are stored with store.addProofsForMint.
RecoverAdd(p, ps, last, k) ==
  /\ run[p] = NoRun
  /\ LET started == [NoRun EXCEPT !.script = "recover", !.mintUrl = DefaultMint,
                                  !.proofs = ps, !.keysetId = k,
                                  !.next = IF last = Omitted THEN 0 ELSE last[1] + 1,
                                  !.counters = loadCounters(counterFile),
                                  !.before = loadWallet(walletFile)]
     IN IF ps = <<>>
        THEN /\ run' = [run EXCEPT ![p] = [started EXCEPT !.at = "done"]]
             /\ UNCHANGED <<storeVars, callVars, modeVars>>
        ELSE /\ StoreCall("add", DefaultMint, ps)
             /\ run' = [run EXCEPT ![p] =
                          [started EXCEPT !.at = IF last = Omitted THEN "done" ELSE "added"]]
  /\ UNCHANGED counterVars
  /\ UNCHANGED <<argv, lock, keystore, seeds, console, configFile, preRestore>>

\* recover: deterministic.updateCounter(wallet.keysetId, next), run to its end.
RecoverAdvance(p) ==
  /\ run[p].script = "recover"
  /\ run[p].at = "added"
  /\ counterFile' = OkCounterFile(updateCounter(loadCounters(counterFile), run[p].keysetId,
                                                run[p].next))
  /\ lastCounters' = updateCounter(loadCounters(counterFile), run[p].keysetId, run[p].next)
  /\ lastCall' = Call("advance", run[p].keysetId, <<>>, run[p].next)
  /\ prevCounters' = loadCounters(counterFile)
  /\ returned' = Nothing
  /\ run' = [run EXCEPT ![p].at = "done"]
  /\ UNCHANGED <<cpc, keysetId, counterInit, session, counters>>
  /\ UNCHANGED <<overwritten, prevWallet>>
  /\ UNCHANGED <<storeVars, modeVars>>
  /\ UNCHANGED <<argv, lock, keystore, seeds, console, configFile, preRestore>>

\* The process is killed between two of its steps.
Kill(p) ==
  /\ run[p].at \notin {"off", "done", "failed", "killed"}
  /\ run' = [run EXCEPT ![p].at = "killed"]
  /\ UNCHANGED <<storeVars, counterVars, callVars, modeVars>>
  /\ UNCHANGED <<argv, lock, keystore, seeds, console, configFile, preRestore>>

ScriptInit ==
  /\ AtRest
  /\ lockFile = <<>>
  /\ walletFile \in {NoFile}
                     \cup {OkFile([m \in {DefaultMint} |-> ps]) :
                             ps \in {<<[secret |-> "s1", amount |-> 2]>>,
                                     <<[secret |-> "s1", amount |-> 1],
                                       [secret |-> "s2", amount |-> 1]>>}}
  /\ counterFile \in {NoCounterFile, OkCounterFile([k \in {"k1"} |-> MaxIndex])}
  /\ fileMode = IF walletFile.state = "absent" THEN {} ELSE Mode600
  /\ umask = Umask022
  /\ NoScript

ScriptNext ==
  \/ \E p \in Procs, script \in SendScripts \cup {"melt"}, amount \in 0..3 :
        ReadProofs(p, script, amount)
  \/ \E p \in Procs, spent \in SUBSET Secrets : Verify(p, spent)
  \/ \E p \in Procs, ok \in BOOLEAN : Split(p, ok)
  \/ \E p \in Procs, ok \in BOOLEAN :
        \E change \in {<<>>, <<Signed(p, "change", 1)>>} : MeltProofs(p, ok, change)
  \/ \E p \in Procs : SaveKeep(p)
  \/ \E p \in Procs, script \in {"receive", "mint"}, ok \in BOOLEAN : Receive(p, script, ok)
  \/ \E p \in Procs : AddReceived(p)
  \/ \E p \in Procs, last \in {Omitted} \cup {Given(n) : n \in 0..(MaxIndex - 1)},
        k \in Keysets :
        \E ps \in {<<>>, <<Signed(p, "got", 2)>>} : RecoverAdd(p, ps, last, k)
  \/ \E p \in Procs : RecoverAdvance(p)
  \/ \E p \in Procs : Kill(p)

ScriptSpec == ScriptInit /\ [][ScriptNext]_vars

(***************************************************************************)
(* The restore scripts next to processes inside withLock.  Restore opens   *)
(* WALLET_FILE itself, call by call: existsSync, copyFileSync,             *)
(* writeFileSync.  A process runs one restore and nothing else.            *)
(***************************************************************************)
\* restore.js, first variant ("restore"): fs.existsSync(WALLET_FILE).
\* Second variant ("restore-backup"): existsSync, then the file is read and
\* parsed (a file that does not parse ends the script) and the script
\* refuses an existingBalance above 0.
RestoreExists(p, script) ==
  /\ pc[p] = "idle"
  /\ result[p] = "none"
  /\ run[p] = NoRun
  /\ run' = [run EXCEPT ![p] =
               [NoRun EXCEPT !.script = script,
                             !.before = loadWallet(walletFile),
                             !.at = IF walletFile.state = "absent" THEN "write"
                                    ELSE IF script = "restore" THEN "copy"
                                    ELSE IF walletFile.state = "ok"
                                            /\ existingBalance(walletFile) = 0
                                         THEN "write" ELSE "failed"]]
  /\ UNCHANGED <<storeVars, counterVars, callVars, modeVars>>
  /\ UNCHANGED <<argv, lock, keystore, seeds, console, configFile, preRestore>>

\* fs.copyFileSync(WALLET_FILE, WALLET_FILE + '.pre-restore.' + Date.now()):
\* the copy holds what the file holds at this moment.
RestoreCopy(p) ==
  /\ run[p].script = "restore"
  /\ run[p].at = "copy"
  /\ preRestore' = preRestore \cup {walletFile}
  /\ run' = [run EXCEPT ![p].at = "write"]
  /\ UNCHANGED <<storeVars, counterVars, callVars, modeVars>>
  /\ UNCHANGED <<argv, lock, keystore, seeds, console, configFile>>

\* fs.writeFileSync(WALLET_FILE, JSON.stringify(wallet)) of the backup's
\* wallet w; the first variant passes { mode: 0o600 } and calls chmodSync.
RestoreWrite(p, w) ==
  /\ run[p].script \in {"restore", "restore-backup"}
  /\ run[p].at = "write"
  /\ walletFile' = OkFile(w)
  /\ fileMode' = IF run[p].script = "restore"
                   THEN chmodSync(writeFileMode(walletFile, fileMode, Mode600, umask), Mode600)
                   ELSE writeFileMode(walletFile, fileMode, Mode666, umask)
  /\ run' = [run EXCEPT ![p].at = "done"]
  /\ UNCHANGED <<pc, lockFile, lockPid, elapsed, waitUntil, wallet, fnResult, result, adds,
                 pureAdds, held, solo, relAbsent>>
  /\ UNCHANGED <<counterVars, callVars>>
  /\ UNCHANGED umask
  /\ UNCHANGED <<argv, lock, keystore, seeds, console, configFile, preRestore>>

\* A wallet file of an earlier run may be there.
RestoreInit ==
  /\ AtRest
  /\ lockFile = <<>>
  /\ walletFile \in {NoFile, OkFile([m \in {"mA"} |-> <<[secret |-> "s1", amount |-> 1]>>])}
  /\ counterFile = NoCounterFile
  /\ fileMode = IF walletFile.state = "absent" THEN {} ELSE Mode600
  /\ umask = Umask022
  /\ NoScript

RestoreNext ==
  \/ \E p \in Procs : run[p] = NoRun /\ StartOp(p)
  \/ \E p \in Procs : Step(p)
  \/ \E p \in Procs : Crash(p)
  \/ \E p \in Procs : Exit(p)
  \/ Tick
  \/ \E p \in Procs, script \in {"restore", "restore-backup"} : RestoreExists(p, script)
  \/ \E p \in Procs : RestoreCopy(p)
  \/ \E p \in Procs, w \in BackupWallets : RestoreWrite(p, w)

RestoreSpec == RestoreInit /\ [][RestoreNext]_vars

TypeOK ==
  /\ pc \in [Procs -> AllPcs]
  /\ fileMode \in SUBSET ModeBits
  /\ umask \in Umasks
  /\ walletFile.state = "absent" => fileMode = {}
  /\ \A p \in Procs : Fits(wallet[p])
  /\ Fits(walletFile.data)
  /\ \A p \in Procs : \A k \in DOMAIN session[p] : session[p][k] <= MaxIndex
  /\ \A k \in DOMAIN counterFile.data : counterFile.data[k] <= MaxIndex

(***************************************************************************)
(* Properties.                                                             *)
(***************************************************************************)
InCritical == {p \in Procs : pc[p] \in CriticalPcs}

\* C1: at most one live process is between a successful acquireLock and its
\* releaseLock, in every reachable state.
MutualExclusion == Cardinality(InCritical) <= 1

StoredWallet == loadWallet(walletFile)
StoredSet ==
  UNION {{<<m, StoredWallet[m][i]>> : i \in DOMAIN StoredWallet[m]} : m \in DOMAIN StoredWallet}

\* C2: when the only operations run so far are adds of one proof each, with
\* pairwise distinct secrets, each run to its end, and no process is inside
\* withLock's critical section, the file holds exactly those proofs, each once.
NoLostUpdates ==
  (pureAdds /\ InCritical = {}) =>
     /\ StoredSet = adds
     /\ \A m \in DOMAIN StoredWallet :
          Len(StoredWallet[m]) = Cardinality({a \in adds : a[1] = m})

\* C3: for every keyset, each complete content written to the counter file
\* holds a value at least the value of the complete content before it.
CounterNeverDecreases ==
  [][counterFile'.state = "ok" =>
       \A k \in Keysets : counterOf(counterFile'.data, k) >= counterOf(lastCounters, k)]_vars

Reserved(p) == counterOf(counterInit[p], keysetId[p]) .. (counterOf(session[p], keysetId[p]) - 1)

\* C4: two running wallet sessions bound to the same keyset have consumed
\* disjoint ranges of derivation indices.
ReservationsDisjoint ==
  \A p, q \in Procs :
    (p # q /\ cpc[p] # "off" /\ cpc[q] # "off" /\ keysetId[p] = keysetId[q]) =>
       Reserved(p) \cap Reserved(q) = {}

\* C5: under fair scheduling and advancing time every call of acquireLock
\* ends: it returns having created the marker, or it throws.
AcquireLockTerminates ==
  \A p \in Procs : (pc[p] \in AcquirePcs) ~> (pc[p] \notin AcquirePcs)

\* C6: an acquirer that found the marker of a process that no longer exists,
\* with no other process contending, never reaches the timeout check or the
\* wait, and does not fail with the lock-timeout error.
StaleMarkerDoesNotBlock ==
  \A p \in Procs :
    solo[p] => /\ pc[p] \notin {"checkTimeout", "wait"}
               /\ result[p] # "LockTimeout"

StaleMarkerOvercome == \E p \in Procs : solo[p] /\ pc[p] = "load" /\ elapsed[p] = 0

\* C7: an acquirer that sees the marker held by a live process all along never
\* removes the marker and never runs fn (so it never writes the wallet file);
\* its call ends only with the lock-timeout error.
HeldLockTimesOut ==
  \A p \in Procs :
    held[p] => \/ pc[p] \in {"tryCreate", "readLock", "killCheck", "checkTimeout", "wait"}
               \/ pc[p] \in DeadPcs
               \/ pc[p] = "idle" /\ result[p] = "LockTimeout" /\ fnResult[p] = "none"

TimedOutOnHeldLock ==
  \E p \in Procs : held[p] /\ pc[p] = "idle" /\ result[p] = "LockTimeout"

\* C8: when withLock has returned after fn ran, no marker created by the
\* caller is left, and withLock's outcome is fn's outcome, value or error.
WithLockReleases ==
  \A p \in Procs :
    (pc[p] = "idle" /\ fnResult[p] # "none") =>
       /\ result[p] = fnResult[p]
       /\ ~(lockFile # <<>> /\ lockFile[1].creator = p)

ReturnedAfterFnError ==
  \E p \in Procs : pc[p] = "idle" /\ fnResult[p] = "error" /\ result[p] = "error"

\* C9: releaseLock on an absent marker raises nothing and leaves it absent
\* (withLock then returns fn's outcome), and releasing twice in a row gives
\* what releasing once gives.
ReleaseIdempotent ==
  [][/\ releaseLock(releaseLock(lockFile).file).file = releaseLock(lockFile).file
     /\ ~releaseLock(releaseLock(lockFile).file).threw
     /\ \A p \in Procs :
          (pc[p] = "release" /\ pc'[p] = "idle" /\ lockFile = <<>>) =>
             (lockFile' = <<>> /\ result'[p] = fnResult[p])]_vars

ReleasedAbsentMarker ==
  relAbsent /\ lockFile = <<>> /\ \E p \in Procs : pc[p] = "idle" /\ result[p] = "ok"

\* C10: no two proofs stored for the same mint have the same secret.
NoDuplicateSecrets ==
  \A m \in DOMAIN StoredWallet :
    \A i, j \in DOMAIN StoredWallet[m] :
      i # j => StoredWallet[m][i].secret # StoredWallet[m][j].secret
TargetBefore == proofsOf(prevWallet, lastCall.target)
TargetStored == proofsOf(StoredWallet, lastCall.target)
WithSecret(ps, s) == {i \in DOMAIN ps : ps[i].secret = s}
LastWithSecret(ps, s) == ps[CHOOSE i \in WithSecret(ps, s) : \A k \in WithSecret(ps, s) : k <= i]

\* C11: after add(mint, newProofs), for every secret among the stored and the
\* new proofs exactly one proof with that secret is stored for the mint, and
\* it is the last one of (stored proofs, then new proofs) with that secret.
AddDeduplicates ==
  lastCall.kind = "add" =>
    \A s \in Secrets :
      WithSecret(TargetBefore \o lastCall.proofs, s) # {} =>
        /\ Cardinality(WithSecret(TargetStored, s)) = 1
        /\ LastWithSecret(TargetStored, s) = LastWithSecret(TargetBefore \o lastCall.proofs, s)

TargetSecrets == {lastCall.proofs[i].secret : i \in DOMAIN lastCall.proofs}
KeptIdx == {i \in DOMAIN TargetBefore : TargetBefore[i].secret \notin TargetSecrets}
NthKept(j) == CHOOSE i \in KeptIdx : Cardinality({k \in KeptIdx : k <= i}) = j

\* C12: after remove(mint, targets) the mint's stored proofs are the proofs
\* stored before whose secret is no target's secret, in their previous order.
RemoveBySecret ==
  lastCall.kind = "remove" =>
    /\ Len(TargetStored) = Cardinality(KeptIdx)
    /\ \A j \in DOMAIN TargetStored : TargetStored[j] = TargetBefore[NthKept(j)]

RemovedOneKeptSameAmount ==
  /\ lastCall.kind = "remove"
  /\ Len(TargetBefore) = 2
  /\ Len(TargetStored) = 1
  /\ \E i \in DOMAIN lastCall.proofs :
       /\ lastCall.proofs[i].amount = TargetStored[1].amount
       /\ lastCall.proofs[i].secret # TargetStored[1].secret

\* C13: after replace(mint, P), proofsFor(mint) gives P, whatever was stored.
ReplaceRoundTrip ==
  lastCall.kind = "replace" => getProofsForMint(walletFile, lastCall.target) = lastCall.proofs

ReplacedOtherProofs ==
  /\ lastCall.kind = "replace"
  /\ Len(lastCall.proofs) = 2
  /\ TargetBefore # <<>>
  /\ TargetBefore # lastCall.proofs

AmountsIn(ps) == {ps[i].amount : i \in DOMAIN ps}
RECURSIVE SumOver(_, _)
SumOver(S, ps) ==
  IF S = {} THEN 0
  ELSE LET a == CHOOSE x \in S : TRUE
       IN a * Cardinality({i \in DOMAIN ps : ps[i].amount = a}) + SumOver(S \ {a}, ps)
SumOfAmounts(ps) == SumOver(AmountsIn(ps), ps)
OneTwoFour == <<[secret |-> "a", amount |-> 1], [secret |-> "b", amount |-> 2],
                [secret |-> "c", amount |-> 4]>>

\* C14: balance(mint) is the sum of the amounts of the proofs stored for the
\* mint (0 with none), and a balance call returns it; from the empty store,
\* add of proofs with amounts 1, 2 and 4 gives balance 7.
BalanceIsSum ==
  /\ \A m \in Mints : getBalanceForMint(walletFile, m) = SumOfAmounts(proofsOf(StoredWallet, m))
  /\ lastCall.kind = "balance" => returned.balance = SumOfAmounts(TargetStored)
  /\ getBalanceForMint(OkFile(addProofsForMint(loadWallet(NoFile), "mA", OneTwoFour)), "mA") = 7

BalanceOfTwoProofs ==
  /\ lastCall.kind = "balance"
  /\ Len(TargetStored) = 2
  /\ returned.balance = 3

\* C15: proofsFor(mint) changes neither the wallet file nor the lock marker,
\* and returns the stored proofs of the mint, the empty sequence for a mint
\* without entry or a missing file.
ReadOnlyTotal ==
  [][lastCall'.kind = "get" =>
       /\ walletFile' = walletFile
       /\ lockFile' = lockFile
       /\ returned'.proofs = IF lastCall'.target \in DOMAIN StoredWallet
                               THEN StoredWallet[lastCall'.target] ELSE <<>>]_vars

ReadMissingFile ==
  lastCall.kind = "get" /\ walletFile.state = "absent" /\ returned.proofs = <<>>

\* C16: while one process alone is writing the wallet file, a reader gets the
\* store as it was before the write or as it is after it.
NoPartialUpdateObservable ==
  \A p \in Procs :
    (pc[p] = "saveWrite" /\ InCritical = {p}) => StoredWallet \in {overwritten, wallet[p]}
Candidates == 0..MaxIndex
Larger(a, b) == IF a >= b THEN a ELSE b
StoredCounter(k) == counterOf(loadCounters(counterFile), k)
CounterBefore(k) == counterOf(prevCounters, k)
Twice(c, k, v1, v2) == updateCounter(updateCounter(c, k, v1), k, v2)

\* C17: advance(k, candidate) leaves the counter file complete, with keyset k
\* at the larger of its value before (0 without entry) and the candidate, and
\* the other keysets as they were; two advances of k leave the same value in
\* either order, the larger candidate on a store without entry for k.
AdvanceIsMax ==
  /\ lastCall.kind = "advance" =>
       /\ counterFile.state = "ok"
       /\ StoredCounter(lastCall.target) = Larger(CounterBefore(lastCall.target), lastCall.n)
       /\ \A k \in Keysets \ {lastCall.target} : StoredCounter(k) = CounterBefore(k)
  /\ \A k \in Keysets, v1, v2 \in Candidates :
       /\ counterOf(Twice(loadCounters(counterFile), k, v1, v2), k) =
            counterOf(Twice(loadCounters(counterFile), k, v2, v1), k)
       /\ counterOf(Twice(loadCounters(NoCounterFile), k, v1, v2), k) = Larger(v1, v2)

LowerCandidateIgnored ==
  /\ lastCall.kind = "advance"
  /\ lastCall.n < CounterBefore(lastCall.target)
  /\ StoredCounter(lastCall.target) = CounterBefore(lastCall.target)

NoTornCounterFile ==
  (\A p \in Procs : cpc[p] # "ucWrite") => counterFile.state # "torn"

\* C20: when no updateCounter is running and the counter file is complete, it
\* holds for every running session's keyset at least the value that session
\* has reserved up to (every one of its updates has been written).
BothUpdatesReflected ==
  ((\A p \in Procs : cpc[p] \in {"off", "ready"}) /\ counterFile.state = "ok") =>
     \A p \in Procs :
       cpc[p] = "ready" =>
         counterOf(counterFile.data, keysetId[p]) >= counterOf(session[p], keysetId[p])
\* C21: loading a store whose file is missing or does not parse gives the
\* empty store as an ordinary return value (no proofs, balance 0, no
\* counters), for the proof store and for the counter store alike, and no
\* load changes either file: a file that does not parse stays as it is.
LoadOfUnusableIsEmpty ==
  /\ (lastCall.kind = "get" /\ walletFile.state # "ok") =>
        (returned.proofs = <<>> /\ prevWallet = EmptyWallet)
  /\ (lastCall.kind = "balance" /\ walletFile.state # "ok") =>
        (returned.balance = 0 /\ prevWallet = EmptyWallet)
  /\ \A p \in Procs : (cpc[p] = "ready" /\ counterFile.state # "ok") =>
        (counterInit[p] = EmptyCounters /\ session[p] = EmptyCounters)

LoadLeavesFile ==
  /\ [](LoadOfUnusableIsEmpty)
  /\ [][walletFile' = walletFile /\ counterFile' = counterFile]_vars

CorruptFilesLoaded ==
  /\ walletFile = TornFile
  /\ counterFile = TornCounterFile
  /\ lastCall.kind = "get"
  /\ returned.proofs = <<>>
  /\ \E p \in Procs : cpc[p] = "ready" /\ counterInit[p] = EmptyCounters

\* C22: after every call that writes the wallet file (add, remove, replace,
\* restore) the file is readable and writable by its owner and by nobody
\* else (mode 0600), whether or not the file existed before and whatever its
\* mode was.
WalletFileOwnerOnly ==
  lastCall.kind \in {"add", "remove", "replace", "restore"} =>
    (walletFile.state = "ok" /\ fileMode = Mode600)

\* The keys a run of a locking script locks to, as the command line gives them.
LockKeys == IF argv.script = "lock-multisig" THEN parseArgs(argv).pubkeys ELSE argv.pubkeys
InRange(o, n) == o # Omitted /\ o[1] \in 1..n

\* C23: a threshold below 1 or above the number of keys makes the build fail
\* before any proof is swapped and before the proof store is changed; a
\* threshold from 1 to the number of keys is accepted; and a lock that is
\* built requires exactly the threshold that was given, never another value.
InvalidThresholdRejected ==
  (lock.outcome # "none" /\ LockKeys # <<>> /\ argv.threshold # Omitted) =>
    /\ ~InRange(argv.threshold, Len(LockKeys)) =>
          (lock.outcome # "locked" /\ lastCall = NoCall)
    /\ lock.outcome = "locked" => lock.required = argv.threshold[1]
    /\ (InRange(argv.threshold, Len(LockKeys)) /\ argv.amount <= 2 /\ argv.refundKeys = <<>>) =>
          lock.outcome = "locked"

\* C24: when lock-multisig is given no threshold, the lock it builds
\* requires the signatures of all its keys.
OmittedThresholdRequiresAll ==
  (argv.script = "lock-multisig" /\ lock.outcome = "locked" /\ argv.threshold = Omitted) =>
    lock.required = Len(lock.pubkeys)

\* C25: send-to-group without --threshold locks with n_sigs = 1, and with
\* --threshold N with n_sigs = N, over all the resolved member keys.
GroupThreshold ==
  (argv.script = "send-to-group" /\ lock.outcome = "locked") =>
    /\ lock.pubkeys = argv.pubkeys
    /\ argv.threshold = Omitted => (lock.nSigs = Given(1) /\ lock.required = 1)
    /\ argv.threshold # Omitted => (lock.nSigs = argv.threshold
                                     /\ lock.required = argv.threshold[1])

GroupLockedForAnyMember ==
  /\ argv.script = "send-to-group"
  /\ argv.threshold = Omitted
  /\ Len(argv.pubkeys) = 3
  /\ lock.outcome = "locked"
  /\ lock.required = 1
  /\ lastCall.kind = "replace"

\* C26: a lock asked for with refund keys is built only if the lock time is
\* given and lies after the current time and the refund threshold, if given,
\* lies between 1 and the number of refund keys; and the lock that is built
\* carries the refund keys and the lock time.
RefundValidated ==
  (lock.outcome = "locked" /\ argv.refundKeys # <<>>) =>
    /\ argv.locktime # Omitted
    /\ argv.locktime[1] > Now
    /\ argv.refundThreshold # Omitted => InRange(argv.refundThreshold, Len(argv.refundKeys))
    /\ lock.refundKeys = mapNormalize(argv.refundKeys)
    /\ lock.locktime = argv.locktime

SeedOnlyForWholePhrase ==
  LET whole == keystore.passphrase /\ keystore.ok /\ Len(keystore.words) \in {12, 24}
  IN \A p \in Procs : seeds[p].called =>
       /\ ~whole => seeds[p].seed = NoSeed
       /\ whole => (seeds[p].seed # NoSeed /\ seeds[p].seed.bytes = 64)

SeedNeverLogged == \A l \in console : l.seed = NoSeed


FatalErrorLosesNothing ==
  \A p \in Procs :
    (run[p].at = "failed" /\ \A q \in Procs \ {p} : run[q] = NoRun) =>
      /\ loadWallet(walletFile) \in
            {run[p].before, saveProofsForMint(run[p].before, run[p].mintUrl, run[p].proofs)}
      /\ run[p].swapped =>
            /\ \A i \in DOMAIN run[p].keep :
                  \E j \in DOMAIN getProofsForMint(walletFile, run[p].mintUrl) :
                    getProofsForMint(walletFile, run[p].mintUrl)[j] = run[p].keep[i]
            /\ SecretsOf(getProofsForMint(walletFile, run[p].mintUrl))
                  \cap SecretsOf(run[p].proofs) = {}

\* C34: when a receive (or mint claim) and a send have both finished, the
\* proofs the receive added are stored, unless the send had read them: proofs
\* added between the send's read and its save are not lost.
ReceivedSurvivesSend ==
  \A p, q \in Procs :
    (/\ run[p].script \in {"receive", "mint"}
     /\ run[p].at = "done"
     /\ run[q].script \in SendScripts
     /\ run[q].at = "done"
     /\ SecretsOf(run[p].proofs) \cap SecretsOf(proofsOf(run[q].before, run[q].mintUrl)) = {}) =>
       SecretsOf(run[p].proofs) \subseteq SecretsOf(getProofsForMint(walletFile, run[p].mintUrl))

\* C36: a recover run that found proofs whose highest signed index is c
\* first adds the proofs to the proof store, leaving the counter file as it
\* is, and then sets the keyset's counter to the larger of its value and
\* c + 1, which is at least c + 1; the counter file changes at no other
\* step, so a run that is killed between the two writes leaves the proofs
\* stored and the counter not advanced.
RecoverAddsThenAdvances ==
  [][/\ \A p \in Procs :
          /\ (run[p] = NoRun /\ run'[p].script = "recover" /\ run'[p].proofs # <<>>) =>
                /\ SecretsOf(run'[p].proofs)
                      \subseteq SecretsOf(getProofsForMint(walletFile', run'[p].mintUrl))
                /\ counterFile' = counterFile
                /\ run'[p].at = IF run'[p].next > 0 THEN "added" ELSE "done"
          /\ (run[p].script = "recover" /\ run[p].at = "added" /\ run'[p].at = "done") =>
                /\ counterFile'.state = "ok"
                /\ counterOf(counterFile'.data, run[p].keysetId) =
                      Larger(counterOf(loadCounters(counterFile), run[p].keysetId), run[p].next)
                /\ counterOf(counterFile'.data, run[p].keysetId) >= run[p].next
                /\ walletFile' = walletFile
          /\ (run[p].script = "recover" /\ run[p].at = "added" /\ run'[p].at = "killed") =>
                (walletFile' = walletFile /\ counterFile' = counterFile)
     /\ counterFile' # counterFile =>
          \E p \in Procs : run[p].script = "recover" /\ run[p].at = "added"
                            /\ run'[p].at = "done"]_vars

RecoveredAndKilledBetween ==
  \E p, q \in Procs :
    /\ run[p].script = "recover"
    /\ run[p].at = "done"
    /\ run[p].next > counterOf(run[p].counters, run[p].keysetId)
    /\ counterOf(loadCounters(counterFile), run[p].keysetId) = run[p].next
    /\ run[q].script = "recover"
    /\ run[q].at = "killed"
    /\ run[q].next > counterOf(loadCounters(counterFile), run[q].keysetId)
    /\ SecretsOf(run[p].proofs) \cup SecretsOf(run[q].proofs)
          = SecretsOf(getProofsForMint(walletFile, DefaultMint))

OtherMintsUntouched ==
  lastCall.kind \in {"add", "remove", "replace"} =>
    /\ (DOMAIN StoredWallet) \ {lastCall.target} = (DOMAIN prevWallet) \ {lastCall.target}
    /\ \A b \in (DOMAIN prevWallet) \ {lastCall.target} : StoredWallet[b] = prevWallet[b]

ChangedOneMintOfTwo ==
  /\ lastCall.kind \in {"remove", "replace"}
  /\ \E b \in (DOMAIN prevWallet) \ {lastCall.target} :
        prevWallet[b] # <<>> /\ StoredWallet[b] = prevWallet[b]
  /\ proofsOf(prevWallet, lastCall.target) # <<>>
  /\ proofsOf(StoredWallet, lastCall.target) # proofsOf(prevWallet, lastCall.target)

\* C38: whenever a step removes the lock marker, the process that created
\* the marker is the one taking the step, or it is not alive any more (it is
\* a process of an earlier run or it is gone).
MarkerRemovedByOwnerOrAfterDeath ==
  [][(lockFile # <<>> /\ lockFile' = <<>>) =>
       \/ lockFile[1].creator \notin Procs
       \/ pc[lockFile[1].creator] \in DeadPcs
       \/ pc'[lockFile[1].creator] # pc[lockFile[1].creator]]_vars

\* C33: whenever the wallet file changes, the process taking the step (a
\* store operation or a restore script) holds the lock: the marker exists
\* and is the one that process created.
WritesHoldTheLock ==
  [][walletFile' # walletFile =>
       \E p \in Procs :
         /\ pc'[p] # pc[p] \/ run'[p] # run[p]
         /\ lockFile # <<>>
         /\ lockFile[1].creator = p]_vars

\* C39: once a restore has written the wallet file and no other process is
\* inside a store call, every proof the wallet file held when the restore
\* began is in the wallet file or in a pre-restore copy (the other
\* processes having made additions only).
RestoreKeepsContent ==
  \A p \in Procs :
    (/\ run[p].script \in {"restore", "restore-backup"}
     /\ run[p].at = "done"
     /\ pureAdds
     /\ \A q \in Procs \ {p} : pc[q] \in {"idle"} \cup DeadPcs) =>
      \A m \in DOMAIN run[p].before :
        SecretsOf(run[p].before[m])
          \subseteq SecretsOf(getProofsForMint(walletFile, m))
                      \cup UNION {SecretsOf(getProofsForMint(f, m)) : f \in preRestore}

====
